---------------------------- MODULE Spec2Model ----------------------------
(***************************************************************************)
(* A model of gedis: the per-connection command loop (handleConnection),   *)
(* the command processor (ProcessCommand) and the leader side of the       *)
(* replication protocol (PropagateWriteCommandToReplicas, PSYNC).          *)
(*                                                                         *)
(* Bytes on the wire are TLA+ strings, built the way the Go code builds    *)
(* them ("+OK\r\n", "*2\r\n$3\r\nGET\r\n..."), so frame lengths are real.     *)
(* Every connection is served by its own goroutine; the goroutines share   *)
(* the global maps and counters without synchronisation, so a handler is   *)
(* modelled as a sequence of steps, one per access to shared state that    *)
(* another goroutine can observe, and the steps of different connections   *)
(* interleave freely.                                                      *)
(***************************************************************************)
EXTENDS Integers, Sequences, FiniteSets, TLC

\* ------------------------------------------------------------------ bounds
NConns == 3        \* connections the server accepts
NClients == 2      \* of them, the ones that connect where two suffice
MaxCmds == 4       \* requests read over all connections in one run

\* the wall clock at start, and the last millisecond the model lets it reach
ClockStart == 5

ClockEnd == 6

\* the requests of a behaviour of the stream specification
MaxXadds == 3

Conns == 1 .. NConns

CRLF == "\r\n"

EmptyMap == [x \in {} |-> 0]

\* m with key k bound to v (a Go map assignment m[k] = v)
MapPut(m, k, v) == [x \in (DOMAIN m) \cup {k} |-> IF x = k THEN v ELSE m[x]]

\* m[k], or the zero value d when k is not a key of m
MapGet(m, k, d) == IF k \in DOMAIN m THEN m[k] ELSE d

\* ------------------------------------------------------------ conversions
Digits == <<"0", "1", "2", "3", "4", "5", "6", "7", "8", "9">>

RECURSIVE Itoa(_)
\* strconv.Itoa: the decimal representation of n
Itoa(n) ==
  IF n < 0 THEN "-" \o Itoa(0 - n)
  ELSE IF n < 10 THEN Digits[n + 1]
  ELSE Itoa(n \div 10) \o Digits[(n % 10) + 1]

\* the integers whose decimal form the model's strings can spell
AtoiRange == -4 .. 20

\* strconv.Atoi: ok is FALSE when s is not a decimal integer
Atoi(s) ==
  IF \E n \in AtoiRange : Itoa(n) = s
  THEN [ok |-> TRUE, n |-> CHOOSE n \in AtoiRange : Itoa(n) = s]
  ELSE [ok |-> FALSE, n |-> 0]

\* strings.ToLower on the words the model's requests use
ToLower(s) ==
  CASE s = "MULTI" -> "multi"
    [] s = "EXEC" -> "exec"
    [] s = "DISCARD" -> "discard"
    [] s = "REPLCONF" -> "replconf"
    [] s = "GETACK" -> "getack"
    [] s = "SET" -> "set"
    [] s = "Set" -> "set"
    [] s = "GET" -> "get"
    [] s = "INCR" -> "incr"
    [] s = "DEL" -> "del"
    [] s = "PING" -> "ping"
    [] s = "ECHO" -> "echo"
    [] s = "PX" -> "px"
    [] s = "SUBSCRIBE" -> "subscribe"
    [] s = "UNSUBSCRIBE" -> "unsubscribe"
    [] s = "PUBLISH" -> "publish"
    [] s = "AUTH" -> "auth"
    [] s = "ACL" -> "acl"
    [] s = "PSYNC" -> "psync"
    [] s = "XADD" -> "xadd"
    [] s = "KEYS" -> "keys"
    [] s = "TYPE" -> "type"
    [] s = "RPUSH" -> "rpush"
    [] s = "LPUSH" -> "lpush"
    [] s = "LLEN" -> "llen"
    [] s = "LPOP" -> "lpop"
    [] s = "LRANGE" -> "lrange"
    [] s = "ZADD" -> "zadd"
    [] s = "ZRANK" -> "zrank"
    [] s = "ZRANGE" -> "zrange"
    [] s = "ZCARD" -> "zcard"
    [] s = "ZREM" -> "zrem"
    [] s = "GEOADD" -> "geoadd"
    [] OTHER -> s

\* strings.ToUpper on the ACL subcommands
ToUpper(s) ==
  CASE s = "setuser" -> "SETUSER"
    [] s = "getuser" -> "GETUSER"
    [] s = "whoami" -> "WHOAMI"
    [] OTHER -> s

\* hex(sha256(p)): an injective tag stands for the digest
Sha256Hex(p) == "sha256(" \o p \o ")"

\* ---------------------------------------------- conversions on characters
\* Where the code looks inside a string (a prefix, a first byte, a split, a
\* number to parse) the string is a sequence of one-character strings.
Space(ch) == ch \in {" ", "\t", "\n", "\r"}

RECURSIVE TrimLeft(_)
TrimLeft(cs) == IF cs # <<>> /\ Space(Head(cs)) THEN TrimLeft(Tail(cs)) ELSE cs

RECURSIVE TrimRight(_)
TrimRight(cs) ==
  IF cs # <<>> /\ Space(cs[Len(cs)]) THEN TrimRight(SubSeq(cs, 1, Len(cs) - 1)) ELSE cs

\* strings.TrimSpace
TrimSpace(cs) == TrimRight(TrimLeft(cs))

\* strings.HasPrefix
HasPrefix(cs, prefix) == Len(cs) >= Len(prefix) /\ SubSeq(cs, 1, Len(prefix)) = prefix

\* strings.HasSuffix
HasSuffix(cs, suffix) ==
  Len(cs) >= Len(suffix) /\ SubSeq(cs, Len(cs) - Len(suffix) + 1, Len(cs)) = suffix

\* cs[1:]
From1(cs) == SubSeq(cs, 2, Len(cs))

IsDigit(ch) == \E i \in 1 .. 10 : Digits[i] = ch

DigitValue(ch) == (CHOOSE i \in 1 .. 10 : Digits[i] = ch) - 1

RECURSIVE DecimalValue(_)
\* the number a sequence of digits spells
DecimalValue(ds) ==
  IF ds = <<>> THEN 0
  ELSE 10 * DecimalValue(SubSeq(ds, 1, Len(ds) - 1)) + DigitValue(ds[Len(ds)])

\* strconv.Atoi and strconv.ParseInt(s, 10, 64): an optional sign, then one or
\* more digits and nothing else (the numbers of the model are far from 2^63)
ParseInt(cs) ==
  LET signed == cs # <<>> /\ Head(cs) \in {"+", "-"}
      ds == IF signed THEN Tail(cs) ELSE cs
  IN IF ds = <<>> \/ \E i \in 1 .. Len(ds) : ~IsDigit(ds[i])
     THEN [ok |-> FALSE, n |-> 0]
     ELSE [ok |-> TRUE,
           n |-> IF signed /\ Head(cs) = "-" THEN 0 - DecimalValue(ds) ELSE DecimalValue(ds)]

RECURSIVE AsString(_)
\* the characters as one of the model's strings
AsString(cs) == IF cs = <<>> THEN "" ELSE Head(cs) \o AsString(Tail(cs))

\* ------------------------------------------------------------------ codec
RECURSIVE BulkStrings(_)
BulkStrings(arr) ==
  IF arr = <<>> THEN ""
  ELSE "$" \o Itoa(Len(Head(arr))) \o CRLF \o Head(arr) \o CRLF \o BulkStrings(Tail(arr))

\* a RESP array of bulk strings
StringArrayToBulkStringArray(StringArray) ==
  "*" \o Itoa(Len(StringArray)) \o CRLF \o BulkStrings(StringArray)

StringToBulkString(String) == "$" \o Itoa(Len(String)) \o CRLF \o String \o CRLF

RECURSIVE EncodeElements(_)
EncodeElements(elements) ==
  IF elements = <<>> THEN ""
  ELSE LET el == Head(elements) IN
       (IF el.Type = "BulkString"
        THEN "$" \o Itoa(Len(el.Value)) \o CRLF \o el.Value \o CRLF
        ELSE ":" \o el.Value \o CRLF) \o EncodeElements(Tail(elements))

\* a RESP array of bulk strings and integers
EncodeArray(elements) == "*" \o Itoa(Len(elements)) \o CRLF \o EncodeElements(elements)

RECURSIVE ReadOffset(_)
\* the bytes readRESPArray consumes for the elements of a request: for each, the
\* "$<len>\r\n" line and the payload with its line break
ReadOffset(arr) ==
  IF arr = <<>> THEN 0
  ELSE Len("$" \o Itoa(Len(Head(arr))) \o CRLF) + (Len(Head(arr)) + 2) + ReadOffset(Tail(arr))

\* the local readOffset of readRESPArray when it has read the whole request
FrameBytes(arr) == Len("*" \o Itoa(Len(arr)) \o CRLF) + ReadOffset(arr)

\* readRESPArray returning readOffset, the bytes of the frame
readRESPArrayCounting(arr) == [result |-> arr, n |-> FrameBytes(arr)]

\* readRESPArray on a well-formed request: the elements, and the byte count it
\* returns, which is the literal 0 and not readOffset
readRESPArray(arr) == [result |-> arr, n |-> 0]


\* --------------------------------------------------------- program values
\* the snapshot sent to a new replica: the decoded emptyRDBBase64, with its
\* unprintable bytes written as dots (88 bytes)
emptyRDB == "REDIS0011..redis-ver.7.2.0..redis-bits.@..ctime.m..e..used-mem.......aof-base....n;...Z."

\* the replication ID, which nothing ever sets
replID == ""

allowedInSubscribeMode == {"subscribe", "unsubscribe", "psubscribe", "punsubscribe", "ping", "quit"}

writeCommand == {"set", "del"}

\* the users map at start: the default user, without password
InitUsers == [default |-> [Flags |-> {"nopass"}, Passwords |-> <<>>]]

\* ------------------------------------------------------------------ state
VARIABLES
  alive,               \* FALSE once the process has exited (os.Exit, a panic)
  now,                 \* the wall clock, in milliseconds
  isReplica,           \* started with --replicaof
  replOffset,          \* the leader's replication offset
  replicaClients,      \* the connections registered by PSYNC, in order
  offset,              \* the replica's count of bytes read
  data,                \* key -> [valueString, expiry]
  channelSubscribers,  \* channel -> connections, in order
  users,               \* user name -> [Flags, Passwords]
  pc,                  \* where each connection's goroutine stands
  connectionToPrimary, \* the connection is this replica's link to its leader
  inTransaction,       \* handleConnection's local of that name
  queuedCommands,      \* handleConnection's local of that name
  client,              \* the connection's Client record
  cur,                 \* the command ProcessCommand is working on
  execIdx,             \* EXEC's position in queuedCommands (0: not in EXEC)
  results,             \* EXEC's results so far
  propList,            \* the replicas PropagateWriteCommandToReplicas has yet to write to
  rcLocal,             \* the replicaClients value PSYNC's append has read
  reply,               \* the bytes handleConnection wrote in answer to the last request
  wire,                \* per connection, the writes made to it from inside ProcessCommand
  issued,              \* history: the number of requests read
  last,                \* history: the last request read, and on which connection
  wlog,                \* history: the write commands processed by the leader, in order,
                       \* each with the connections that had completed a PSYNC by then
  applied,             \* history: the write commands whose switch case has run
  synced,              \* history: the connections that have completed a PSYNC
  execStart,           \* history: the state in which a connection's EXEC began, kept
                       \* while no other connection has taken a step since
  incrLocal,           \* INCR's locals: the key, and the value it found there
  streams,             \* key -> the entries of the stream, in append order
  xaddLocal,           \* XADD's locals: the key, and the entry it is about to append
  listData,            \* key -> the elements of the list, head first
  sortedSets,          \* key -> member -> score
  iterOrder,           \* the order in which a range over a map of members visits them now
  arrays,              \* the arrays allocated for subscriber lists, each with its cells
  subArray,            \* channel -> the array its subscriber list lives in
  pubLocal,            \* PUBLISH's locals: the list it ranges over and its position in it
  hsRead               \* history: what the replica's handshake has read from its leader

vars == <<alive, now, isReplica, replOffset, replicaClients, offset, data,
          channelSubscribers, users, pc, connectionToPrimary, inTransaction,
          queuedCommands, client, cur, execIdx, results, propList, rcLocal,
          reply, wire, issued, last, wlog, applied, synced, execStart,
          incrLocal, streams, xaddLocal,
          listData,
          sortedSets,
          iterOrder,
          arrays,
          subArray,
          pubLocal, hsRead>>

\* the state as one record, for the handlers written as functions of the state
State ==
  [alive |-> alive, now |-> now, isReplica |-> isReplica, replOffset |-> replOffset,
   replicaClients |-> replicaClients, offset |-> offset, data |-> data,
   channelSubscribers |-> channelSubscribers, users |-> users, pc |-> pc,
   connectionToPrimary |-> connectionToPrimary, inTransaction |-> inTransaction,
   queuedCommands |-> queuedCommands, client |-> client, cur |-> cur,
   execIdx |-> execIdx, results |-> results, propList |-> propList,
   rcLocal |-> rcLocal, reply |-> reply, wire |-> wire, issued |-> issued,
   last |-> last, wlog |-> wlog, applied |-> applied, synced |-> synced,
   execStart |-> execStart, incrLocal |-> incrLocal, streams |-> streams,
   xaddLocal |-> xaddLocal, listData |-> listData,
   sortedSets |-> sortedSets,
   iterOrder |-> iterOrder,
   arrays |-> arrays,
   subArray |-> subArray,
   pubLocal |-> pubLocal,
   hsRead |-> hsRead]

\* the next state is s
Becomes(s) ==
  /\ alive' = s.alive /\ now' = s.now /\ isReplica' = s.isReplica
  /\ replOffset' = s.replOffset /\ replicaClients' = s.replicaClients
  /\ offset' = s.offset /\ data' = s.data
  /\ channelSubscribers' = s.channelSubscribers /\ users' = s.users
  /\ pc' = s.pc /\ connectionToPrimary' = s.connectionToPrimary
  /\ inTransaction' = s.inTransaction /\ queuedCommands' = s.queuedCommands
  /\ client' = s.client /\ cur' = s.cur /\ execIdx' = s.execIdx
  /\ results' = s.results /\ propList' = s.propList /\ rcLocal' = s.rcLocal
  /\ reply' = s.reply /\ wire' = s.wire /\ issued' = s.issued /\ last' = s.last
  /\ wlog' = s.wlog /\ applied' = s.applied /\ synced' = s.synced
  /\ execStart' = s.execStart /\ incrLocal' = s.incrLocal /\ streams' = s.streams
  /\ xaddLocal' = s.xaddLocal /\ listData' = s.listData
  /\ sortedSets' = s.sortedSets
  /\ iterOrder' = s.iterOrder
  /\ arrays' = s.arrays
  /\ subArray' = s.subArray
  /\ pubLocal' = s.pubLocal
  /\ hsRead' = s.hsRead

NoCommand == [StringArray |-> <<>>, Name |-> "", Offset |-> 0, id |-> 0]

NoRequest == [conn |-> 0, StringArray |-> <<>>]

NoSnapshots == [c \in Conns |-> <<>>]

\* PUBLISH's locals outside PUBLISH
NoPublish == [channel |-> "", message |-> "", array |-> 0, len |-> 0, idx |-> 0, sent |-> <<>>]

\* the member names sorted sets hold, in the order of Go's < on strings
Members == <<"a", "b", "c">>

\* the order in which a range over a map of members visits them at start
MemberOrder == Members

\* XADD's locals outside XADD
NoXadd == [key |-> "", entryID |-> <<>>, entry |-> EmptyMap, pending |-> FALSE]

\* INCR's locals outside INCR
NoIncr == [key |-> "", ok |-> FALSE, valueString |-> "", stale |-> FALSE]

\* the Client record handleConnection builds for a new connection
NewClient(u) ==
  [SubscribedMode |-> FALSE, Authenticated |-> "nopass" \in u["default"].Flags,
   Username |-> "default", SubscribedChannels |-> {}]

\* one write to connection c from inside ProcessCommand
WireWrite(s, c, kind, bytes, id) ==
  [s EXCEPT !.wire[c] = Append(@, [kind |-> kind, bytes |-> bytes, id |-> id])]

\* the process dies: os.Exit(1), or a panic no goroutine recovers
Exit(s) == [s EXCEPT !.alive = FALSE]

\* ProcessCommand returns r: into EXEC's results, or to handleConnection, which
\* writes it to the connection unless the connection is the link to the leader
Return(s, c, r) ==
  IF s.execIdx[c] > 0
  THEN [s EXCEPT !.results[c] = Append(@, r), !.execIdx[c] = @ + 1,
                 !.pc[c] = "exec", !.cur[c] = NoCommand]
  ELSE [s EXCEPT !.reply[c] = IF s.connectionToPrimary[c] THEN @ ELSE r,
                 !.pc[c] = "read", !.cur[c] = NoCommand]

\* ------------------------------------------------ ProcessCommand: the cases
\* passwordRule starts with ">" (strings.HasPrefix), on the rules the model uses
HasGtPrefix(rule) == rule \in {">pw", ">"}

\* passwordRule[1:] for those rules
StripGt(rule) == IF rule = ">pw" THEN "pw" ELSE ""

\* setUserPassword: the reply and the users map after it
setUserPassword(u, username, passwordRule) ==
  IF username \notin DOMAIN u THEN [reply |-> "-ERR no such user\r\n", users |-> u]
  ELSE IF ~HasGtPrefix(passwordRule) THEN [reply |-> "-ERR invalid rule\r\n", users |-> u]
  ELSE [reply |-> "+OK\r\n",
        users |-> [u EXCEPT ![username] =
                     [Flags |-> @.Flags \ {"nopass"},
                      Passwords |-> Append(@.Passwords, Sha256Hex(StripGt(passwordRule)))]]]

\* a set of strings as a sequence (the order of a Go map iteration is arbitrary;
\* the flag sets of the model have at most one element)
RECURSIVE SetToSeq(_)
SetToSeq(S) == IF S = {} THEN <<>> ELSE LET x == CHOOSE y \in S : TRUE IN <<x>> \o SetToSeq(S \ {x})

\* encodeACLGetUser: [ "flags", [flag...], "passwords", [hash...] ]
encodeACLGetUser(u, username) ==
  IF username \notin DOMAIN u THEN "-ERR user does not exist\r\n"
  ELSE "*4\r\n" \o StringToBulkString("flags")
         \o StringArrayToBulkStringArray(SetToSeq(u[username].Flags))
         \o StringToBulkString("passwords")
         \o StringArrayToBulkStringArray(u[username].Passwords)

\* data[key] = &valueType{...}: the map gets a new struct for the key, and an
\* INCR that has looked the key up holds a struct that is no longer in the map
Assign(s, key, value) ==
  [s EXCEPT !.data = MapPut(@, key, value),
            !.incrLocal = [d \in Conns |-> IF @[d].key = key /\ s.pc[d] = "incr"
                                            THEN [@[d] EXCEPT !.stale = TRUE] ELSE @[d]]]

\* case "set"
CaseSet(s, c, a) ==
  IF Len(a) < 3 THEN Exit(s)
  ELSE LET s1 == Assign(s, a[2], [valueString |-> a[3], expiry |-> <<>>]) IN
       IF Len(a) > 3 /\ ToLower(a[4]) = "px"
       THEN IF Len(a) < 5 \/ ~Atoi(a[5]).ok THEN Exit(s1)
            ELSE Return([s1 EXCEPT !.data[a[2]].expiry = <<s.now + Atoi(a[5]).n>>], c, "+OK\r\n")
       ELSE Return(s1, c, "+OK\r\n")

\* case "get" with a key that is still served at its expiry instant
CaseGetAtExpiry(s, c, a) ==
  IF Len(a) < 2 THEN Exit(s)
  ELSE IF a[2] \in DOMAIN s.data
          /\ (s.data[a[2]].expiry = <<>> \/ s.now <= s.data[a[2]].expiry[1])
       THEN Return(s, c, StringToBulkString(s.data[a[2]].valueString))
       ELSE Return(s, c, "$-1\r\n")

\* case "get": the value, unless the key is absent or its expiry has passed
CaseGet(s, c, a) ==
  IF Len(a) < 2 THEN Exit(s)
  ELSE IF a[2] \in DOMAIN s.data
          /\ (s.data[a[2]].expiry = <<>> \/ s.now < s.data[a[2]].expiry[1])
       THEN Return(s, c, StringToBulkString(s.data[a[2]].valueString))
       ELSE Return(s, c, "$-1\r\n")

\* case "incr", value, ok := data[key]: the lookup, and what the struct found
\* there holds; the increment is written in a later step
CaseIncr(s, c, a) ==
  IF Len(a) < 2 THEN Exit(s)
  ELSE [s EXCEPT !.incrLocal[c] =
                    [key |-> a[2], ok |-> a[2] \in DOMAIN s.data,
                     valueString |-> IF a[2] \in DOMAIN s.data
                                     THEN s.data[a[2]].valueString ELSE "",
                     stale |-> FALSE],
                 !.pc[c] = "incr"]

\* case "incr", the write: a missing key gets a new struct holding "1"; a value
\* that is an integer is written, incremented, into the struct the lookup found,
\* which is no longer the one in the map when the key was assigned meanwhile
IncrWrite(s, c) ==
  LET l == s.incrLocal[c]
      s0 == [s EXCEPT !.incrLocal[c] = NoIncr]
  IN IF ~l.ok
     THEN Return(Assign(s0, l.key, [valueString |-> "1", expiry |-> <<>>]), c, ":1\r\n")
     ELSE LET v == Atoi(l.valueString) IN
          IF ~v.ok THEN Return(s0, c, "-ERR value is not an integer or out of range\r\n")
          ELSE Return(IF l.stale THEN s0
                      ELSE [s0 EXCEPT !.data[l.key].valueString = Itoa(v.n + 1)],
                      c, ":" \o Itoa(v.n + 1) \o CRLF)

\* the elements of seq, in order, without x
Without(seq, x) == SelectSeq(seq, LAMBDA y : y # x)

InSeq(seq, x) == \E i \in 1 .. Len(seq) : seq[i] = x

\* A slice of connections is the first elements of an array of cells; a cell no
\* element has been written to holds no connection.
NoConn == 0

\* the capacity of the array append moves a full slice of capacity cap to
GrowCap(cap) == IF cap = 0 THEN 1 ELSE 2 * cap

\* case "subscribe": a new subscriber is appended in the channel's array when it
\* has a free cell, and in a new, larger array otherwise
CaseSubscribe(s, c, a) ==
  IF Len(a) < 2 THEN Exit(s)
  ELSE LET channel == a[2]
           chans == s.client[c].SubscribedChannels \cup {channel}
           subscribers == MapGet(s.channelSubscribers, channel, <<>>)
           s1 == [s EXCEPT !.client[c].SubscribedChannels = chans,
                           !.client[c].SubscribedMode = TRUE]
           n == Len(subscribers)
           cells == IF channel \in DOMAIN s.subArray THEN s.arrays[s.subArray[channel]]
                    ELSE <<>>
           s2 == IF InSeq(subscribers, c) THEN s1
                 ELSE IF n < Len(cells)
                 THEN [s1 EXCEPT !.channelSubscribers =
                                    MapPut(@, channel, Append(subscribers, c)),
                                 !.arrays[s.subArray[channel]][n + 1] = c]
                 ELSE [s1 EXCEPT !.channelSubscribers =
                                    MapPut(@, channel, Append(subscribers, c)),
                                 !.arrays = Append(@, [i \in 1 .. GrowCap(Len(cells)) |->
                                                         IF i <= n THEN subscribers[i]
                                                         ELSE IF i = n + 1 THEN c ELSE NoConn]),
                                 !.subArray = MapPut(@, channel, Len(s.arrays) + 1)]
       IN Return(s2, c, EncodeArray(<<[Type |-> "BulkString", Value |-> "subscribe"],
                                      [Type |-> "BulkString", Value |-> channel],
                                      [Type |-> "Integer", Value |-> Itoa(Cardinality(chans))]>>))

\* the notification PUBLISH writes
Notification(channel, message) ==
  EncodeArray(<<[Type |-> "BulkString", Value |-> "message"],
                [Type |-> "BulkString", Value |-> channel],
                [Type |-> "BulkString", Value |-> message]>>)

\* case "publish", up to the loop: subscribers is the channel's slice as it is
\* now, that is its array and its length
CasePublish(s, c, a) ==
  IF Len(a) < 3 THEN Exit(s)
  ELSE [s EXCEPT !.pubLocal[c] =
                    [channel |-> a[2], message |-> a[3],
                     array |-> MapGet(s.subArray, a[2], 0),
                     len |-> Len(MapGet(s.channelSubscribers, a[2], <<>>)),
                     idx |-> 1, sent |-> <<>>],
                 !.pc[c] = "publish"]

\* case "publish", one turn of the loop: a write to the connection the next
\* cell of the array holds now (sent keeps the connections written to so far);
\* after the last one, the count is returned
PublishWrite(s, c) ==
  LET l == s.pubLocal[c] IN
  IF l.idx > l.len
  THEN Return([s EXCEPT !.pubLocal[c] = NoPublish], c, ":" \o Itoa(l.len) \o CRLF)
  ELSE WireWrite([s EXCEPT !.pubLocal[c].idx = @ + 1,
                           !.pubLocal[c].sent = Append(@, s.arrays[l.array][l.idx])],
                 s.arrays[l.array][l.idx], "message", Notification(l.channel, l.message), 0)

\* case "unsubscribe": the connection leaves the channel's slice, the elements
\* after it moving one cell down in the same array, and the channel leaves the
\* session's set; SubscribedMode is not touched
CaseUnsubscribe(s, c, a) ==
  IF Len(a) < 2 THEN Exit(s)
  ELSE LET channel == a[2]
           subscribers == MapGet(s.channelSubscribers, channel, <<>>)
           chans == s.client[c].SubscribedChannels \ {channel}
           n == Len(subscribers)
           i == CHOOSE i \in 1 .. n : subscribers[i] = c
           s1 == IF InSeq(subscribers, c)
                 THEN [s EXCEPT !.channelSubscribers = MapPut(@, channel, Without(subscribers, c)),
                                !.arrays[s.subArray[channel]] =
                                   [j \in DOMAIN @ |-> IF i <= j /\ j < n THEN @[j + 1] ELSE @[j]]]
                 ELSE s
       IN Return([s1 EXCEPT !.client[c].SubscribedChannels = chans], c,
                 EncodeArray(<<[Type |-> "BulkString", Value |-> "unsubscribe"],
                               [Type |-> "BulkString", Value |-> channel],
                               [Type |-> "Integer", Value |-> Itoa(Cardinality(chans))]>>))

\* case "acl"
CaseAcl(s, c, a) ==
  IF Len(a) < 2 THEN Return(s, c, "-ERR wrong ACL syntax\r\n")
  ELSE LET sub == ToUpper(a[2]) IN
       CASE sub = "SETUSER" ->
              IF Len(a) < 4
              THEN Return(s, c, "-ERR wrong number of arguments for ACL SETUSER\r\n")
              ELSE LET r == setUserPassword(s.users, a[3], a[4]) IN
                   Return([s EXCEPT !.client[c].Authenticated = TRUE, !.users = r.users],
                          c, r.reply)
         [] sub = "GETUSER" ->
              IF Len(a) < 3
              THEN Return(s, c, "-ERR wrong number of arguments for ACL GETUSER\r\n")
              ELSE Return(s, c, encodeACLGetUser(s.users, a[3]))
         [] sub = "WHOAMI" -> Return(s, c, StringToBulkString("default"))
         [] OTHER -> Return(s, c, "-ERR unknown ACL subcommand\r\n")

\* case "auth"
CaseAuth(s, c, a) ==
  IF Len(a) # 3 THEN Return(s, c, "-ERR wrong number of arguments for 'auth' command\r\n")
  ELSE IF a[2] \notin DOMAIN s.users
       THEN Return(s, c, "-WRONGPASS invalid username-password pair or user is disabled\r\n")
       ELSE IF InSeq(s.users[a[2]].Passwords, Sha256Hex(a[3]))
            THEN Return([s EXCEPT !.client[c].Authenticated = TRUE,
                                  !.client[c].Username = a[2]], c, "+OK\r\n")
            ELSE Return(s, c, "-WRONGPASS invalid username-password pair or user is disabled\r\n")

\* CasePsync with the bug of registering the replica before its snapshot is sent
CasePsyncRegistersFirst(s, c, a) ==
  IF Len(a) # 3 THEN Return(s, c, "-ERR wrong number of arguments for 'psync' command\r\n")
  ELSE IF a[2] = "?" /\ a[3] = "-1"
       THEN [WireWrite(s, c, "fullresync", "+FULLRESYNC " \o replID \o " 0\r\n", 0)
               EXCEPT !.pc[c] = "psync_header", !.replicaClients = Append(@, c)]
       ELSE Return(s, c, "-ERR unknown command\r\n")

\* case "psync": PSYNC ? -1 writes the full-resync line and goes on to the
\* snapshot; any other three arguments fall out of the switch
CasePsync(s, c, a) ==
  IF Len(a) # 3 THEN Return(s, c, "-ERR wrong number of arguments for 'psync' command\r\n")
  ELSE IF a[2] = "?" /\ a[3] = "-1"
       THEN [WireWrite(s, c, "fullresync", "+FULLRESYNC " \o replID \o " 0\r\n", 0)
               EXCEPT !.pc[c] = "psync_header"]
       ELSE Return(s, c, "-ERR unknown command\r\n")

\* ------------------------------------------------ cases "keys" and "type"
\* case "keys": for the pattern "*" the keys of data, then those of listData
CaseKeys(s, c, a) ==
  IF Len(a) < 2 THEN Exit(s)
  ELSE IF a[2] # "*" THEN Return(s, c, "*0\r\n")
  ELSE Return(s, c, StringArrayToBulkStringArray(SetToSeq(DOMAIN s.data)
                                                 \o SetToSeq(DOMAIN s.listData)))

\* case "type"
CaseType(s, c, a) ==
  IF Len(a) # 2 THEN Return(s, c, "-ERR wrong number of arguments for 'type' command\r\n")
  ELSE IF a[2] \in DOMAIN s.data THEN Return(s, c, "+string\r\n")
  ELSE IF a[2] \in DOMAIN s.streams THEN Return(s, c, "+stream\r\n")
  ELSE Return(s, c, "+none\r\n")

\* ------------------------------------------------------- the list cases
\* commandStringArray[2:]
From2(a) == SubSeq(a, 3, Len(a))

RECURSIVE Reverse(_)
\* slices.Reverse
Reverse(seq) == IF seq = <<>> THEN <<>> ELSE Append(Reverse(Tail(seq)), Head(seq))

\* case "rpush"
CaseRpush(s, c, a) ==
  IF Len(a) < 2 THEN Exit(s)
  ELSE LET list == MapGet(s.listData, a[2], <<>>) \o From2(a) IN
       Return([s EXCEPT !.listData = MapPut(@, a[2], list)], c, ":" \o Itoa(Len(list)) \o CRLF)

\* case "lpush"
CaseLpush(s, c, a) ==
  IF Len(a) < 2 THEN Exit(s)
  ELSE LET list == Reverse(From2(a)) \o MapGet(s.listData, a[2], <<>>) IN
       Return([s EXCEPT !.listData = MapPut(@, a[2], list)], c, ":" \o Itoa(Len(list)) \o CRLF)

\* case "llen"
CaseLlen(s, c, a) ==
  IF Len(a) < 2 THEN Exit(s)
  ELSE Return(s, c, ":" \o Itoa(Len(MapGet(s.listData, a[2], <<>>))) \o CRLF)

\* what case "lpop" does once numberOfElementsToRemove is known
Pop(s, c, key, list, numberOfElementsToRemove) ==
  LET n == IF numberOfElementsToRemove > Len(list) THEN Len(list)
           ELSE numberOfElementsToRemove
  IN IF n > 1
     THEN Return([s EXCEPT !.listData[key] = SubSeq(list, n + 1, Len(list))], c,
                 StringArrayToBulkStringArray(SubSeq(list, 1, n)))
     ELSE Return([s EXCEPT !.listData[key] = Tail(list)], c, StringToBulkString(list[1]))

\* case "lpop": the count is parsed into a variable declared inside the if
\* block (:=), which hides numberOfElementsToRemove; the outer one stays 1. A
\* count that is no number, or a negative one, ends the process.
CaseLpop(s, c, a) ==
  IF Len(a) < 2 THEN Exit(s)
  ELSE LET list == MapGet(s.listData, a[2], <<>>) IN
       IF list = <<>> THEN Return(s, c, "$-1\r\n")
       ELSE IF Len(a) >= 3 /\ (~Atoi(a[3]).ok \/ Atoi(a[3]).n < 0) THEN Exit(s)
       ELSE Pop(s, c, a[2], list, 1)

\* the window of LRANGE on a list of length elements: empty, or the positions
\* start .. stop (counted from 0)
LrangeWindow(length, start0, stop0) ==
  LET start1 == IF start0 < 0 THEN start0 + length ELSE start0
      stop1 == IF stop0 < 0 THEN stop0 + length ELSE stop0
      start == IF start1 < 0 THEN 0 ELSE start1
      stop2 == IF stop1 < 0 THEN 0 ELSE stop1
      stop == IF stop2 >= length THEN length - 1 ELSE stop2
  IN IF start > stop \/ start >= length THEN {} ELSE start .. stop

\* case "lrange"
CaseLrange(s, c, a) ==
  IF Len(a) < 4 \/ ~Atoi(a[3]).ok \/ ~Atoi(a[4]).ok THEN Exit(s)
  ELSE IF a[2] \notin DOMAIN s.listData THEN Return(s, c, "*0\r\n")
  ELSE LET list == s.listData[a[2]]
           window == LrangeWindow(Len(list), Atoi(a[3]).n, Atoi(a[4]).n)
       IN IF window = {} THEN Return(s, c, "*0\r\n")
          ELSE Return(s, c, StringArrayToBulkStringArray(
                              [i \in 1 .. Cardinality(window) |->
                                 list[i + CHOOSE m \in window : \A x \in window : m <= x]]))

\* ------------------------------------------------- the sorted-set cases
\* A float64 is NaN or a number v + lim * 42.52556439: v whole, and lim counting
\* halves of the latitude limit 85.05112878.
Number(v) == [nan |-> FALSE, v |-> v, lim |-> 0]

NaN == [nan |-> TRUE, v |-> 0, lim |-> 0]

Limits(lim) == [nan |-> FALSE, v |-> 0, lim |-> lim]

\* the whole numbers whose decimal form ParseFloat is given
FloatRange == -181 .. 181

\* their decimal forms
FloatTexts == [n \in FloatRange |-> Itoa(n)]

\* strconv.ParseFloat(s, 64) on the texts the model uses: "NaN" in any case,
\* the latitude limit, its half and their negatives, and the decimal integers
ParseFloat(s) ==
  IF s \in {"NaN", "nan"} THEN [ok |-> TRUE, f |-> NaN]
  ELSE IF s = "85.05112878" THEN [ok |-> TRUE, f |-> Limits(2)]
  ELSE IF s = "42.52556439" THEN [ok |-> TRUE, f |-> Limits(1)]
  ELSE IF s = "-42.52556439" THEN [ok |-> TRUE, f |-> Limits(-1)]
  ELSE IF s = "-85.05112878" THEN [ok |-> TRUE, f |-> Limits(-2)]
  ELSE IF \E n \in FloatRange : FloatTexts[n] = s
  THEN [ok |-> TRUE, f |-> Number(CHOOSE n \in FloatRange : FloatTexts[n] = s)]
  ELSE [ok |-> FALSE, f |-> Number(0)]

\* a number in millionths, cut off: 42.52556439 is 42525564 of them, which
\* orders the numbers of the model as their exact values do
Micro(x) == x.v * 1000000 + x.lim * 42525564

\* == and < on float64: both are false when either side is NaN
FloatEq(x, y) == ~x.nan /\ ~y.nan /\ x.v = y.v /\ x.lim = y.lim

FloatLess(x, y) == ~x.nan /\ ~y.nan /\ Micro(x) < Micro(y)

\* x - y on numbers
FloatSub(x, y) == [nan |-> FALSE, v |-> x.v - y.v, lim |-> x.lim - y.lim]

\* < on member names
StringLess(x, y) ==
  \E i \in 1 .. Len(Members) : \E j \in 1 .. Len(Members) :
    Members[i] = x /\ Members[j] = y /\ i < j

\* the less function zrank and zrange give to sort.Slice
MemberLess(x, y) ==
  IF FloatEq(x.Score, y.Score) THEN StringLess(x.Member, y.Member)
  ELSE FloatLess(x.Score, y.Score)

RECURSIVE InsertSorted(_, _)
\* the inner loop of the insertion sort: x moves towards the front while it is
\* less than the element before it
InsertSorted(front, x) ==
  IF front = <<>> \/ ~MemberLess(x, front[Len(front)]) THEN Append(front, x)
  ELSE Append(InsertSorted(SubSeq(front, 1, Len(front) - 1), x), front[Len(front)])

RECURSIVE SortSlice(_, _)
\* sort.Slice on a slice of at most 12 elements: an insertion sort; sorted is
\* the part already in place
SortSlice(sorted, rest) ==
  IF rest = <<>> THEN sorted
  ELSE SortSlice(InsertSorted(sorted, Head(rest)), Tail(rest))

\* the members of set flattened to a slice in the order the range over the map
\* visits them, then sorted
SortedMembers(s, set) ==
  LET visited == SelectSeq(s.iterOrder, LAMBDA m : m \in DOMAIN set)
  IN SortSlice(<<>>, [i \in 1 .. Len(visited) |->
                        [Member |-> visited[i], Score |-> set[visited[i]]]])

\* zadd: 1 when the member is new, 0 when its score was updated
zadd(s, key, score, member) ==
  LET set == MapGet(s.sortedSets, key, EmptyMap) IN
  [sortedSets |-> MapPut(s.sortedSets, key, MapPut(set, member, score)),
   added |-> IF member \in DOMAIN set THEN 0 ELSE 1]

\* zrank: the position of member in the sorted slice, -1 for nil
zrank(s, key, member) ==
  IF key \notin DOMAIN s.sortedSets THEN -1
  ELSE LET members == SortedMembers(s, s.sortedSets[key]) IN
       IF \E i \in 1 .. Len(members) : members[i].Member = member
       THEN (CHOOSE i \in 1 .. Len(members) : members[i].Member = member) - 1
       ELSE -1

\* the window of zrange on length members: empty, or the positions start .. stop
\* (counted from 0)
ZrangeWindow(length, start0, stop0) ==
  LET start1 == IF start0 < 0 THEN start0 + length ELSE start0
      stop1 == IF stop0 < 0 THEN stop0 + length ELSE stop0
      start == IF start1 < 0 THEN 0 ELSE start1
      stop == IF stop1 >= length THEN length - 1 ELSE stop1
  IN IF start > stop \/ start >= length THEN {} ELSE start .. stop

\* zrange: the member names at the positions of the window
zrange(s, key, start, stop) ==
  IF key \notin DOMAIN s.sortedSets THEN <<>>
  ELSE LET members == SortedMembers(s, s.sortedSets[key])
           window == ZrangeWindow(Len(members), start, stop)
       IN IF window = {} THEN <<>>
          ELSE [i \in 1 .. Cardinality(window) |->
                  members[i + CHOOSE m \in window : \A x \in window : m <= x].Member]

\* zrem: the member leaves the set, and an empty set leaves sortedSets
zrem(s, key, member) ==
  IF key \notin DOMAIN s.sortedSets \/ member \notin DOMAIN s.sortedSets[key]
  THEN [sortedSets |-> s.sortedSets, reply |-> ":0\r\n"]
  ELSE LET set == [m \in (DOMAIN s.sortedSets[key]) \ {member} |-> s.sortedSets[key][m]]
       IN [sortedSets |-> IF set = EmptyMap
                          THEN [k \in (DOMAIN s.sortedSets) \ {key} |-> s.sortedSets[k]]
                          ELSE [s.sortedSets EXCEPT ![key] = set],
           reply |-> ":1\r\n"]

\* case "zadd"
CaseZadd(s, c, a) ==
  IF Len(a) < 3 THEN Exit(s)
  ELSE IF ~ParseFloat(a[3]).ok THEN Return(s, c, "-ERR score must be a float\r\n")
  ELSE IF Len(a) < 4 THEN Exit(s)
  ELSE LET r == zadd(s, a[2], ParseFloat(a[3]).f, a[4]) IN
       Return([s EXCEPT !.sortedSets = r.sortedSets], c, ":" \o Itoa(r.added) \o CRLF)

\* case "zrank"
CaseZrank(s, c, a) ==
  IF Len(a) < 3 THEN Exit(s)
  ELSE LET rank == zrank(s, a[2], a[3]) IN
       Return(s, c, IF rank < 0 THEN "$-1\r\n" ELSE ":" \o Itoa(rank) \o CRLF)

\* case "zrange"
CaseZrange(s, c, a) ==
  IF Len(a) < 3 THEN Exit(s)
  ELSE IF ~Atoi(a[3]).ok THEN Return(s, c, "-ERR invalid start index\r\n")
  ELSE IF Len(a) < 4 THEN Exit(s)
  ELSE IF ~Atoi(a[4]).ok THEN Return(s, c, "-ERR invalid stop index\r\n")
  ELSE Return(s, c, StringArrayToBulkStringArray(zrange(s, a[2], Atoi(a[3]).n, Atoi(a[4]).n)))

\* case "zcard"
CaseZcard(s, c, a) ==
  IF Len(a) < 2 THEN Exit(s)
  ELSE Return(s, c, ":" \o Itoa(Cardinality(DOMAIN MapGet(s.sortedSets, a[2], EmptyMap))) \o CRLF)

\* case "zrem"
CaseZrem(s, c, a) ==
  IF Len(a) < 3 THEN Exit(s)
  ELSE LET r == zrem(s, a[2], a[3]) IN
       Return([s EXCEPT !.sortedSets = r.sortedSets], c, r.reply)

\* --------------------------------------------------- geospatial encoding
MIN_LATITUDE == Limits(-2)

MAX_LATITUDE == Limits(2)

MIN_LONGITUDE == Number(-180)

MAX_LONGITUDE == Number(180)

LATITUDE_RANGE == FloatSub(MAX_LATITUDE, MIN_LATITUDE)

LONGITUDE_RANGE == FloatSub(MAX_LONGITUDE, MIN_LONGITUDE)

\* log2 of precision (1 << 26)
PrecisionBits == 26

RECURSIVE Pow2(_)
Pow2(k) == IF k = 0 THEN 1 ELSE 2 * Pow2(k - 1)

RECURSIVE ScaledQuotient(_, _, _, _)
\* the whole part of 2^k * (q + r / b), for 0 <= r < b, one binary digit a step
ScaledQuotient(q, r, b, k) ==
  IF k = 0 THEN q
  ELSE IF 2 * r >= b THEN ScaledQuotient(2 * q + 1, 2 * r - b, b, k - 1)
  ELSE ScaledQuotient(2 * q, 2 * r, b, k - 1)

\* uint32(float64(precision) * (x - min) / range), for min <= x: numerator and
\* denominator are taken as whole numbers, as halves of the latitude limit, or
\* in millionths when they mix the two. The conversion of NaN gives 0 on amd64
\* and on arm64.
GridNumber(x, min, range) ==
  IF x.nan THEN 0 ELSE
  LET d == FloatSub(x, min)
      a == IF d.lim = 0 /\ range.lim = 0 THEN d.v
           ELSE IF d.v = 0 /\ range.v = 0 THEN d.lim ELSE Micro(d)
      b == IF d.lim = 0 /\ range.lim = 0 THEN range.v
           ELSE IF d.v = 0 /\ range.v = 0 THEN range.lim ELSE Micro(range)
  IN ScaledQuotient(a \div b, a % b, b, PrecisionBits)

\* a uint64 is its 64 binary digits, digit 0 the lowest
BitIndexes == 0 .. 63

\* uint64(v) of a uint32 below 2^31
Uint64(v) == [i \in BitIndexes |-> IF i < 31 THEN (v \div Pow2(i)) % 2 ELSE 0]

\* v << k
ShiftLeft(v, k) == [i \in BitIndexes |-> IF i >= k THEN v[i - k] ELSE 0]

\* v >> k
ShiftRight(v, k) == [i \in BitIndexes |-> IF i + k <= 63 THEN v[i + k] ELSE 0]

\* v | w
BitOr(v, w) == [i \in BitIndexes |-> IF v[i] = 1 \/ w[i] = 1 THEN 1 ELSE 0]

\* v & the mask whose digits come in alternating runs of run ones and run
\* zeros from digit 0: 0x5555555555555555 is Mask(1), 0x0000FFFF0000FFFF Mask(16)
AndMask(v, run) == [i \in BitIndexes |-> IF (i \div run) % 2 = 0 THEN v[i] ELSE 0]

\* spreadInt32ToInt64
spreadInt32ToInt64(v) ==
  LET r0 == Uint64(v)
      r1 == AndMask(BitOr(r0, ShiftLeft(r0, 16)), 16)
      r2 == AndMask(BitOr(r1, ShiftLeft(r1, 8)), 8)
      r3 == AndMask(BitOr(r2, ShiftLeft(r2, 4)), 4)
      r4 == AndMask(BitOr(r3, ShiftLeft(r3, 2)), 2)
  IN AndMask(BitOr(r4, ShiftLeft(r4, 1)), 1)

\* interleave
interleave(x, y) == BitOr(spreadInt32ToInt64(x), ShiftLeft(spreadInt32ToInt64(y), 1))

\* GeospatialEncode
GeospatialEncode(latitude, longitude) ==
  interleave(GridNumber(latitude, MIN_LATITUDE, LATITUDE_RANGE),
             GridNumber(longitude, MIN_LONGITUDE, LONGITUDE_RANGE))

\* the uint32 whose digits are the low 32 digits of v; the model's have none from
\* digit 31 on
Uint32(v) ==
  LET RECURSIVE Sum(_)
      Sum(i) == IF i > 30 THEN 0 ELSE v[i] * Pow2(i) + Sum(i + 1)
  IN Sum(0)

\* compactInt64ToInt32
compactInt64ToInt32(v) ==
  LET r0 == AndMask(v, 1)
      r1 == AndMask(BitOr(r0, ShiftRight(r0, 1)), 2)
      r2 == AndMask(BitOr(r1, ShiftRight(r1, 2)), 4)
      r3 == AndMask(BitOr(r2, ShiftRight(r2, 4)), 8)
      r4 == AndMask(BitOr(r3, ShiftRight(r3, 8)), 16)
      r5 == AndMask(BitOr(r4, ShiftRight(r4, 16)), 32)
  IN Uint32(r5)

\* convertGridNumbersToCoordinates on one axis: the centre of cell n, as the
\* fraction num / den of the axis range above the axis minimum
GridCentre(n) == [num |-> 2 * n + 1, den |-> Pow2(PrecisionBits + 1)]

\* GeospatialDecode
GeospatialDecode(geoCode) ==
  [Latitude |-> GridCentre(compactInt64ToInt32(geoCode)),
   Longitude |-> GridCentre(compactInt64ToInt32(ShiftRight(geoCode, 1)))]

\* float64(score) of a uint64: exact below 2^53; the model's scores have no
\* digit from 54 on, and with digit 53 set the lowest digit is rounded away
Float64(v) ==
  IF v[53] = 0 \/ v[0] = 0 THEN v
  ELSE IF v[1] = 0 THEN [v EXCEPT ![0] = 0]
  ELSE LET RECURSIVE Carry(_, _)
           Carry(w, i) == IF i > 63 THEN w
                          ELSE IF w[i] = 0 THEN [w EXCEPT ![i] = 1]
                          ELSE Carry([w EXCEPT ![i] = 0], i + 1)
       IN Carry([v EXCEPT ![0] = 0], 1)

RECURSIVE Pow10(_)
Pow10(k) == IF k = 0 THEN 1 ELSE 10 * Pow10(k - 1)

\* |n|
Abs(n) == IF n < 0 THEN 0 - n ELSE n

\* fmt.Sprintf("%.6f", x) on a number: the millionths of |x| rounded to the
\* nearest (42.52556439 is 42525564.39 of them), then sign, whole part, point
\* and six digits
SprintfFloat(x) ==
  LET negative == Micro(x) < 0
      hundredths == Abs(x.lim) * 39
      micro == IF (x.lim < 0) = negative
               THEN Abs(Micro(x)) + (hundredths + 50) \div 100
               ELSE Abs(Micro(x)) - (hundredths + 49) \div 100
      RECURSIVE Fraction(_)
      Fraction(k) == IF k = 0 THEN ""
                     ELSE Fraction(k - 1) \o Digits[((micro \div Pow10(6 - k)) % 10) + 1]
  IN (IF negative THEN "-" ELSE "") \o Itoa(micro \div 1000000) \o "." \o Fraction(6)

\* case "geoadd"
CaseGeoadd(s, c, a) ==
  IF Len(a) < 5 THEN Return(s, c, "-ERR wrong number of arguments for 'geoadd'\r\n")
  ELSE IF ~ParseFloat(a[3]).ok THEN Return(s, c, "-ERR invalid longitude\r\n")
  ELSE IF ~ParseFloat(a[4]).ok THEN Return(s, c, "-ERR invalid latitude\r\n")
  ELSE LET longitude == ParseFloat(a[3]).f
           latitude == ParseFloat(a[4]).f
       IN IF \/ FloatLess(longitude, Number(-180)) \/ FloatLess(Number(180), longitude)
             \/ FloatLess(latitude, Limits(-2)) \/ FloatLess(Limits(2), latitude)
          THEN Return(s, c, "-ERR invalid longitude,latitude pair " \o SprintfFloat(longitude)
                              \o "," \o SprintfFloat(latitude) \o CRLF)
          ELSE LET score == GeospatialEncode(latitude, longitude)
                   set == MapGet(s.sortedSets, a[2], EmptyMap)
               IN Return([s EXCEPT !.sortedSets =
                            MapPut(@, a[2], MapPut(set, a[5],
                                     [nan |-> FALSE, v |-> Float64(score), lim |-> 0]))],
                         c, ":1\r\n")

\* ------------------------------------------------------ case "xadd"
\* An identifier, and any value that may be read as one, is a sequence of
\* characters.

RECURSIVE ItoaChars(_)
\* the decimal representation of n, as fmt.Sprintf("%d") writes it
ItoaChars(n) ==
  IF n < 0 THEN <<"-">> \o ItoaChars(0 - n)
  ELSE IF n < 10 THEN <<Digits[n + 1]>>
  ELSE Append(ItoaChars(n \div 10), Digits[(n % 10) + 1])

\* fmt.Sprintf("%d-%d", ms, seq)
SprintfId(ms, seq) == ItoaChars(ms) \o <<"-">> \o ItoaChars(seq)

RECURSIVE Split(_)
\* strings.Split(cs, "-"): the parts between the "-", one more than there are "-"
Split(cs) ==
  IF \A i \in 1 .. Len(cs) : cs[i] # "-" THEN <<cs>>
  ELSE LET i == CHOOSE i \in 1 .. Len(cs) :
                  cs[i] = "-" /\ \A j \in 1 .. i - 1 : cs[j] # "-"
       IN <<SubSeq(cs, 1, i - 1)>> \o Split(SubSeq(cs, i + 1, Len(cs)))

\* what the identifier part of XADD comes to: an identifier, an error reply, or
\* a panic
XaddOk(ms, seq) == [kind |-> "ok", ms |-> ms, seq |-> seq, reply |-> ""]

XaddErr(r) == [kind |-> "err", ms |-> 0, seq |-> 0, reply |-> r]

XaddPanic == [kind |-> "panic", ms |-> 0, seq |-> 0, reply |-> ""]

RECURSIVE ScanFull(_, _, _)
\* the loop of the full-auto branch, from entry i down: the sequence number to
\* use with ms
ScanFull(entries, i, ms) ==
  IF i = 0 THEN XaddOk(ms, 0)
  ELSE LET lastParts == Split(entries[i]["id"])
           lastMS == ParseInt(lastParts[1]).n
       IN IF lastMS = ms
          THEN IF Len(lastParts) < 2 THEN XaddPanic
               ELSE XaddOk(ms, ParseInt(lastParts[2]).n + 1)
          ELSE IF lastMS < ms THEN XaddOk(ms, 0)
          ELSE ScanFull(entries, i - 1, ms)

RECURSIVE ScanPartial(_, _, _)
\* the loop of the partial-auto branch, from entry i down
ScanPartial(entries, i, ms) ==
  IF i = 0 THEN XaddOk(ms, 0)
  ELSE LET lastParts == Split(entries[i]["id"])
           lastMS == ParseInt(lastParts[1]).n
       IN IF lastMS = ms
          THEN IF Len(lastParts) < 2 THEN XaddPanic
               ELSE XaddOk(ms, ParseInt(lastParts[2]).n + 1)
          ELSE ScanPartial(entries, i - 1, ms)

\* the full-auto branch: "*"
XaddFullAuto(entries, ms) == ScanFull(entries, Len(entries), ms)

\* the partial-auto branch: entryID ends in "-*"
XaddPartialAuto(entries, entryID) ==
  LET parts == Split(entryID) IN
  IF Len(parts) # 2 THEN XaddErr("-ERR invalid stream ID format\r\n")
  ELSE LET ms == ParseInt(parts[1]) IN
       IF ~ms.ok \/ ms.n < 0 THEN XaddErr("-ERR invalid milliseconds part in ID\r\n")
       ELSE LET r == ScanPartial(entries, Len(entries), ms.n) IN
            IF r.kind = "ok" /\ r.ms = 0 /\ r.seq = 0 THEN XaddOk(0, 1) ELSE r

\* the explicit branch
XaddExplicit(entries, entryID) ==
  LET parts == Split(entryID) IN
  IF Len(parts) # 2 THEN XaddErr("-ERR invalid stream ID format\r\n")
  ELSE LET ms == ParseInt(parts[1])
           seq == ParseInt(parts[2])
       IN IF ~ms.ok \/ ~seq.ok \/ ms.n < 0 \/ seq.n < 0
          THEN XaddErr("-ERR invalid stream ID values\r\n")
          ELSE IF ms.n = 0 /\ seq.n = 0
          THEN XaddErr("-ERR The ID specified in XADD must be greater than 0-0\r\n")
          ELSE LET lastID == IF Len(entries) > 0 THEN entries[Len(entries)]["id"] ELSE <<>> IN
               IF lastID = <<>> THEN XaddOk(ms.n, seq.n)
               ELSE LET lastParts == Split(lastID) IN
                    IF Len(lastParts) < 2 THEN XaddPanic
                    ELSE LET lastMS == ParseInt(lastParts[1]).n
                             lastSeq == ParseInt(lastParts[2]).n
                         IN IF ms.n < lastMS \/ (ms.n = lastMS /\ seq.n <= lastSeq)
                            THEN XaddErr("-ERR The ID specified in XADD is equal or smaller than the target stream top item\r\n")
                            ELSE XaddOk(ms.n, seq.n)

RECURSIVE SetFields(_, _, _)
\* the loop that copies the fields of the request, from position i, into entry
SetFields(entry, a, i) ==
  IF i > Len(a) THEN entry ELSE SetFields(MapPut(entry, a[i], a[i + 1]), a, i + 2)

\* case "xadd" up to the entry it will append: the identifier is worked out
\* from the stream as it is now
CaseXadd(s, c, a) ==
  IF Len(a) < 4 \/ Len(a) % 2 = 0
  THEN Return(s, c, "-ERR wrong number of arguments for 'xadd' command\r\n")
  ELSE LET key == a[2]
           entryID == a[3]
           entries == MapGet(s.streams, key, <<>>)
           generated == entryID = <<"*">> \/ HasSuffix(entryID, <<"-", "*">>)
           r == IF entryID = <<"*">> THEN XaddFullAuto(entries, s.now)
                ELSE IF HasSuffix(entryID, <<"-", "*">>) THEN XaddPartialAuto(entries, entryID)
                ELSE XaddExplicit(entries, entryID)
           id == IF generated THEN SprintfId(r.ms, r.seq) ELSE entryID
       IN IF r.kind = "panic" THEN Exit(s)
          ELSE IF r.kind = "err" THEN Return(s, c, r.reply)
          ELSE [s EXCEPT !.xaddLocal[c] =
                           [key |-> key, entryID |-> id, pending |-> TRUE,
                            entry |-> SetFields(MapPut(EmptyMap, "id", id), a, 4)],
                         !.pc[c] = "xadd"]

\* case "xadd", the append and the reply: the identifier the entry was given
XaddAppend(s, c) ==
  LET l == s.xaddLocal[c]
  IN Return([s EXCEPT !.streams = MapPut(@, l.key, Append(MapGet(@, l.key, <<>>), l.entry)),
                      !.xaddLocal[c] = NoXadd],
            c, StringToBulkString(AsString(l.entryID)))

\* the switch of ProcessCommand on the command name
Switch(s, c, command) ==
  LET a == command.StringArray
      name == command.Name
  IN CASE name = "ping" ->
            Return(s, c, IF s.client[c].SubscribedMode
                         THEN "*2\r\n$4\r\npong\r\n$0\r\n\r\n" ELSE "+PONG\r\n")
       [] name = "echo" -> IF Len(a) < 2 THEN Exit(s) ELSE Return(s, c, StringToBulkString(a[2]))
       [] name = "set" -> CaseSet(s, c, a)
       [] name = "get" -> CaseGet(s, c, a)
       [] name = "incr" -> CaseIncr(s, c, a)
       [] name = "subscribe" -> CaseSubscribe(s, c, a)
       [] name = "publish" -> CasePublish(s, c, a)
       [] name = "unsubscribe" -> CaseUnsubscribe(s, c, a)
       [] name = "acl" -> CaseAcl(s, c, a)
       [] name = "auth" -> CaseAuth(s, c, a)
       [] name = "psync" -> CasePsync(s, c, a)
       [] name = "xadd" -> CaseXadd(s, c, a)
       [] name = "keys" -> CaseKeys(s, c, a)
       [] name = "type" -> CaseType(s, c, a)
       [] name = "rpush" -> CaseRpush(s, c, a)
       [] name = "lpush" -> CaseLpush(s, c, a)
       [] name = "llen" -> CaseLlen(s, c, a)
       [] name = "lpop" -> CaseLpop(s, c, a)
       [] name = "lrange" -> CaseLrange(s, c, a)
       [] name = "zadd" -> CaseZadd(s, c, a)
       [] name = "zrank" -> CaseZrank(s, c, a)
       [] name = "zrange" -> CaseZrange(s, c, a)
       [] name = "zcard" -> CaseZcard(s, c, a)
       [] name = "zrem" -> CaseZrem(s, c, a)
       [] name = "geoadd" -> CaseGeoadd(s, c, a)
       [] OTHER -> Return(s, c, "-ERR unknown command\r\n")

\* ------------------------------------------- ProcessCommand: before the switch
\* ProcessCommand up to its switch: the authentication gate, the subscribed-mode
\* gate, then, on a leader and for a write command, the offset and the start of
\* PropagateWriteCommandToReplicas (whose loop ranges over the replicaClients it
\* finds now); any other command goes straight to the switch
ProcessCommand(s, c, command) ==
  IF ~s.client[c].Authenticated /\ command.Name # "auth"
  THEN Return(s, c, "-NOAUTH Authentication required\r\n")
  ELSE IF s.client[c].SubscribedMode /\ command.Name \notin allowedInSubscribeMode
  THEN Return(s, c, "-ERR Can't execute '" \o command.Name
                    \o "': only (P|S)SUBSCRIBE / (P|S)UNSUBSCRIBE / PING / QUIT / RESET are allowed in this context\r\n")
  ELSE IF ~s.isReplica /\ command.Name \in writeCommand
  THEN LET id == Len(s.wlog) + 1 IN
       [s EXCEPT !.replOffset = @ + command.Offset,
                 !.propList[c] = s.replicaClients,
                 !.cur[c] = [command EXCEPT !.id = id],
                 !.pc[c] = "prop",
                 !.wlog = Append(@, [id |-> id, conn |-> c, synced |-> s.synced,
                                     StringArray |-> command.StringArray])]
  ELSE Switch(s, c, command)

\* one round of the loop of PropagateWriteCommandToReplicas: the frame is written
\* to the next replica; after the last one ProcessCommand runs its switch
PropagateWriteCommandToReplicas(s, c) ==
  IF s.propList[c] # <<>>
  THEN [WireWrite(s, Head(s.propList[c]), "frame",
                  StringArrayToBulkStringArray(s.cur[c].StringArray), s.cur[c].id)
          EXCEPT !.propList[c] = Tail(@)]
  ELSE Switch([s EXCEPT !.applied = @ \cup {s.cur[c].id}], c, s.cur[c])

\* case "psync", after the full-resync line: the snapshot's length line
PsyncHeader(s, c) ==
  [WireWrite(s, c, "rdblen", "$" \o Itoa(Len(emptyRDB)) \o CRLF, 0) EXCEPT !.pc[c] = "psync_rdb"]

\* the snapshot bytes
PsyncRdb(s, c) == [WireWrite(s, c, "rdb", emptyRDB, 0) EXCEPT !.pc[c] = "psync_read"]

\* replicaClients = append(replicaClients, *client) reads the list ...
PsyncRead(s, c) == [s EXCEPT !.rcLocal[c] = s.replicaClients, !.pc[c] = "psync_append"]

\* ... and stores the list it read, with the connection added; PSYNC returns nil
PsyncAppend(s, c) ==
  Return([s EXCEPT !.replicaClients = Append(s.rcLocal[c], c), !.rcLocal[c] = <<>>,
                   !.synced = @ \cup {c}], c, "")

RECURSIVE Concat(_)
Concat(rs) == IF rs = <<>> THEN "" ELSE Head(rs) \o Concat(Tail(rs))

\* ExecLoop with the bug of running the queue from its last command to its first
ExecLoopBackwards(s, c) ==
  IF s.execIdx[c] <= Len(s.queuedCommands[c])
  THEN ProcessCommand(s, c, s.queuedCommands[c][Len(s.queuedCommands[c]) + 1 - s.execIdx[c]])
  ELSE [s EXCEPT !.queuedCommands[c] = <<>>,
                 !.reply[c] = "*" \o Itoa(Len(s.results[c])) \o CRLF \o Concat(s.results[c]),
                 !.results[c] = <<>>, !.execIdx[c] = 0, !.pc[c] = "read"]

\* case "exec" of handleConnection, the loop over queuedCommands: the next
\* queued command goes to ProcessCommand; after the last one the queue is
\* dropped and the array of the results is written
ExecLoop(s, c) ==
  IF s.execIdx[c] <= Len(s.queuedCommands[c])
  THEN ProcessCommand(s, c, s.queuedCommands[c][s.execIdx[c]])
  ELSE [s EXCEPT !.queuedCommands[c] = <<>>,
                 !.reply[c] = "*" \o Itoa(Len(s.results[c])) \o CRLF \o Concat(s.results[c]),
                 !.results[c] = <<>>, !.execIdx[c] = 0, !.pc[c] = "read"]

\* ------------------------------------------------------- handleConnection
\* case "replconf": a replica answers the leader's GETACK with its byte count less
\* 37; every other REPLCONF is answered OK
HcReplconf(s, c, arr) ==
  IF Len(arr) >= 2 /\ s.connectionToPrimary[c] /\ ToLower(arr[2]) = "getack"
  THEN [s EXCEPT !.reply[c] = StringArrayToBulkStringArray(
                                 <<"REPLCONF", "ACK", Itoa(s.offset - 37)>>)]
  ELSE [s EXCEPT !.reply[c] = "+OK\r\n"]

\* case "multi"
HcMulti(s, c) ==
  [s EXCEPT !.inTransaction[c] = TRUE, !.queuedCommands[c] = <<>>, !.reply[c] = "+OK\r\n"]

\* HcExec with the bug of not testing inTransaction
HcExecUnchecked(s, c) ==
  [s EXCEPT !.inTransaction[c] = FALSE, !.results[c] = <<>>,
            !.execIdx[c] = 1, !.pc[c] = "exec",
            !.execStart[c] = <<[s EXCEPT !.execStart = NoSnapshots]>>]

\* case "exec", up to its loop
HcExec(s, c) ==
  IF ~s.inTransaction[c]
  THEN [s EXCEPT !.reply[c] = "-ERR EXEC without MULTI\r\n"]
  ELSE [s EXCEPT !.inTransaction[c] = FALSE, !.results[c] = <<>>,
                 !.execIdx[c] = 1, !.pc[c] = "exec",
                 !.execStart[c] = <<[s EXCEPT !.execStart = NoSnapshots]>>]

\* HcDiscard with the bug of leaving the queued commands in place
HcDiscardKeepsQueue(s, c) ==
  IF ~s.inTransaction[c]
  THEN [s EXCEPT !.reply[c] = "-ERR DISCARD without MULTI\r\n"]
  ELSE [s EXCEPT !.inTransaction[c] = FALSE, !.reply[c] = "+OK\r\n"]

\* case "discard"
HcDiscard(s, c) ==
  IF ~s.inTransaction[c]
  THEN [s EXCEPT !.reply[c] = "-ERR DISCARD without MULTI\r\n"]
  ELSE [s EXCEPT !.inTransaction[c] = FALSE, !.queuedCommands[c] = <<>>,
                 !.reply[c] = "+OK\r\n"]

\* the default case: the command is queued in a transaction, processed otherwise
HcDefault(s, c, command) ==
  IF s.inTransaction[c]
  THEN [s EXCEPT !.queuedCommands[c] = Append(@, command), !.reply[c] = "+QUEUED\r\n"]
  ELSE ProcessCommand(s, c, command)

\* one round of the main loop of handleConnection: the request arr has been
\* read (readRESPArray adds its bytes to offset on a replica, whatever the
\* connection) and is dispatched on its lower-cased name; a request without
\* elements makes commandStringArray[0] panic
handleConnection(s, c, arr) ==
  LET s0 == [s EXCEPT !.offset = IF s.isReplica THEN @ + FrameBytes(arr) ELSE @,
                      !.reply[c] = "",
                      !.execStart[c] = <<>>,
                      !.issued = @ + 1,
                      !.last = [conn |-> c, StringArray |-> arr]]
  IN IF arr = <<>> THEN Exit(s0)
     ELSE LET commandName == ToLower(arr[1])
              command == [StringArray |-> arr, Name |-> commandName,
                          Offset |-> readRESPArray(arr).n, id |-> 0]
          IN CASE commandName = "replconf" -> HcReplconf(s0, c, arr)
               [] commandName = "multi" -> HcMulti(s0, c)
               [] commandName = "exec" -> HcExec(s0, c)
               [] commandName = "discard" -> HcDiscard(s0, c)
               [] OTHER -> HcDefault(s0, c, command)

\* ---------------------------------------------------------------- actions
\* the requests clients send
Requests ==
  {<<"MULTI">>, <<"EXEC">>, <<"DISCARD">>, <<"REPLCONF", "listening-port", "6380">>,
   <<"SET", "k", "5">>, <<"Set", "k", "x">>, <<"GET", "k">>, <<"INCR", "k">>, <<"DEL", "k">>,
   <<"PSYNC", "?", "-1">>, <<"SUBSCRIBE", "ch">>, <<"PING">>,
   <<"ACL", "SETUSER", "default", ">pw">>, <<"AUTH", "default", "pw">>,
   <<"REPLCONF", "GETACK", "*">>, <<"SET", "k", "5", "PX", "abc">>}

\* the state after construction, on a replica or a leader, the store holding d
Start(replica, d) ==
  /\ alive = TRUE
  /\ now = ClockStart
  /\ isReplica = replica
  /\ replOffset = 0
  /\ replicaClients = <<>>
  /\ offset = 0
  /\ data = d
  /\ channelSubscribers = EmptyMap
  /\ users = InitUsers
  /\ pc = [c \in Conns |-> "closed"]
  /\ connectionToPrimary = [c \in Conns |-> isReplica /\ c = 1]
  /\ inTransaction = [c \in Conns |-> FALSE]
  /\ queuedCommands = [c \in Conns |-> <<>>]
  /\ client = [c \in Conns |-> NewClient(InitUsers)]
  /\ cur = [c \in Conns |-> NoCommand]
  /\ execIdx = [c \in Conns |-> 0]
  /\ results = [c \in Conns |-> <<>>]
  /\ propList = [c \in Conns |-> <<>>]
  /\ rcLocal = [c \in Conns |-> <<>>]
  /\ reply = [c \in Conns |-> ""]
  /\ wire = [c \in Conns |-> <<>>]
  /\ issued = 0
  /\ last = NoRequest
  /\ wlog = <<>>
  /\ applied = {}
  /\ synced = {}
  /\ execStart = NoSnapshots
  /\ incrLocal = [c \in Conns |-> NoIncr]
  /\ streams = EmptyMap
  /\ xaddLocal = [c \in Conns |-> NoXadd]
  /\ listData = EmptyMap
  /\ sortedSets = EmptyMap
  /\ iterOrder = MemberOrder
  /\ arrays = <<>>
  /\ subArray = EmptyMap
  /\ pubLocal = [c \in Conns |-> NoPublish]
  /\ hsRead = <<>>

Init == \E replica \in BOOLEAN : Start(replica, EmptyMap)

\* connection c takes the step to s: the EXEC snapshots of the other connections
\* are dropped, their EXEC no longer runs alone
Step(c, s) ==
  Becomes([s EXCEPT !.execStart = [x \in Conns |-> IF x = c THEN @[x] ELSE <<>>]])

\* main accepts a connection and starts handleConnection on it, which builds the
\* Client record from the default user's flags as they are now (connections are
\* numbered in the order they are accepted)
Accept(c) ==
  /\ alive /\ pc[c] = "closed" /\ c <= NClients
  /\ \A b \in Conns : b < c => pc[b] # "closed"
  /\ Step(c, [State EXCEPT !.pc[c] = "read", !.client[c] = NewClient(users)])

\* a request arrives on a connection whose goroutine waits in readRESPArray
Receive(c, arr) ==
  /\ alive /\ pc[c] = "read" /\ issued < MaxCmds
  /\ Step(c, handleConnection(State, c, arr))

Propagate(c) ==
  /\ alive /\ pc[c] = "prop"
  /\ Step(c, PropagateWriteCommandToReplicas(State, c))

SendRdbHeader(c) ==
  /\ alive /\ pc[c] = "psync_header"
  /\ Step(c, PsyncHeader(State, c))

SendRdb(c) ==
  /\ alive /\ pc[c] = "psync_rdb"
  /\ Step(c, PsyncRdb(State, c))

ReadReplicaClients(c) ==
  /\ alive /\ pc[c] = "psync_read"
  /\ Step(c, PsyncRead(State, c))

AppendReplica(c) ==
  /\ alive /\ pc[c] = "psync_append"
  /\ Step(c, PsyncAppend(State, c))

Exec(c) ==
  /\ alive /\ pc[c] = "exec"
  /\ Step(c, ExecLoop(State, c))

WriteIncr(c) ==
  /\ alive /\ pc[c] = "incr"
  /\ Step(c, IncrWrite(State, c))

Next ==
  \/ \E c \in Conns : Accept(c)
  \/ \E c \in Conns : \E arr \in Requests : Receive(c, arr)
  \/ \E c \in Conns : Propagate(c)
  \/ \E c \in Conns : SendRdbHeader(c)
  \/ \E c \in Conns : SendRdb(c)
  \/ \E c \in Conns : ReadReplicaClients(c)
  \/ \E c \in Conns : AppendReplica(c)
  \/ \E c \in Conns : Exec(c)
  \/ \E c \in Conns : WriteIncr(c)

Spec == Init /\ [][Next]_vars

\* ------------------------------------------------ the replica's handshake
\* the --port argument's default
port == "6379"

\* lines the leader's end of the link can deliver
LinePong == <<"+", "P", "O", "N", "G", "\r", "\n">>
LineOk == <<"+", "O", "K", "\r", "\n">>
LineErr == <<"-", "E", "R", "R", "\r", "\n">>
LineFullResync == <<"+", "F", "U", "L", "L", "R", "E", "S", "Y", "N", "C", " ", " ", "0", "\r", "\n">>
LineRdbLen == <<"$", "8", "8", "\r", "\n">>
LineRdbNegative == <<"$", "-", "1", "\r", "\n">>
LineRdbNoNumber == <<"$", "x", "\r", "\n">>

\* what one reader.ReadString('\n') of the handshake can return: a line, or an
\* error with nothing read
HsInputs ==
  [line : {LinePong, LineOk, LineErr, LineFullResync, LineRdbLen, LineRdbNegative,
           LineRdbNoNumber},
   err : {FALSE}]
    \cup {[line |-> <<>>, err |-> TRUE]}

\* the goroutine of connection c ends: handleConnection returns
Returned(s, c) == [s EXCEPT !.pc[c] = "returned"]

\* handleConnection past its handshake: the Client record, then the main loop
EnterLoop(s, c) == [s EXCEPT !.client[c] = NewClient(s.users), !.pc[c] = "read"]

\* the handshake's requests
HsRequest(at) ==
  CASE at = "hs_ping" -> "*1\r\n$4\r\nPING\r\n"
    [] at = "hs_port" -> "*3\r\n$8\r\nREPLCONF\r\n$14\r\nlistening-port\r\n$"
                           \o Itoa(Len(port)) \o "\r\n" \o port \o "\r\n"
    [] at = "hs_capa" -> "*3\r\n$8\r\nREPLCONF\r\n$4\r\ncapa\r\n$6\r\npsync2\r\n"
    [] at = "hs_psync" -> "*3\r\n$5\r\nPSYNC\r\n$1\r\n?\r\n$2\r\n-1\r\n"

\* one step of the handshake that reads a line. Steps 1 to 3 write their request
\* (a failed write ends the handshake) and read a line whose content and error
\* they do not look at; step 4 writes PSYNC and reads the answer: a read error
\* ends the handshake, a line that does not start with +FULLRESYNC skips the
\* snapshot; step 5 reads the snapshot's length line
HandshakeLine(s, c, werr, in) ==
  LET at == s.pc[c]
      s1 == [s EXCEPT !.hsRead = Append(@, in)]
  IN IF at \in {"hs_ping", "hs_port", "hs_capa", "hs_psync"} /\ werr THEN Returned(s, c)
     ELSE IF at \in {"hs_ping", "hs_port", "hs_capa"}
     THEN [WireWrite(s1, c, "handshake", HsRequest(at), 0)
             EXCEPT !.pc[c] = CASE at = "hs_ping" -> "hs_port"
                                [] at = "hs_port" -> "hs_capa"
                                [] OTHER -> "hs_psync"]
     ELSE IF at = "hs_psync"
     THEN LET s2 == WireWrite(s1, c, "handshake", HsRequest(at), 0) IN
          IF in.err THEN Returned(s2, c)
          ELSE IF HasPrefix(TrimSpace(in.line), SubSeq(LineFullResync, 1, 11))
               THEN [s2 EXCEPT !.pc[c] = "hs_rdb"]
               ELSE EnterLoop(s2, c)
     ELSE \* the length line of the snapshot
          IF in.err THEN Returned(s1, c)
          ELSE IF Len(in.line) = 0 \/ in.line[1] # "$" THEN Returned(s1, c)
          ELSE LET rdbLen == ParseInt(TrimSpace(From1(in.line))) IN
               IF ~rdbLen.ok THEN Returned(s1, c)
               ELSE IF rdbLen.n < 0 THEN Exit(s1)   \* make([]byte, rdbLen) panics
               ELSE [s1 EXCEPT !.pc[c] = "hs_snapshot"]

\* io.ReadFull(reader, rdb), with avail bytes arriving before the stream ends
HandshakeRdb(s, c, avail) ==
  LET rdbLen == ParseInt(TrimSpace(From1(s.hsRead[Len(s.hsRead)].line))).n
      s1 == [s EXCEPT !.hsRead = Append(@, [line |-> <<"rdb", Itoa(avail)>>,
                                            err |-> avail < rdbLen])]
  IN IF avail < rdbLen THEN Returned(s1, c) ELSE EnterLoop(s1, c)

\* the state in which main has dialled the leader and started handleConnection
\* on the link, connection 1
InitHandshake ==
  /\ Init
  /\ isReplica

\* main: go handleConnection(conn, true)
Dial(c) ==
  /\ alive /\ pc[c] = "closed" /\ connectionToPrimary[c]
  /\ Step(c, [State EXCEPT !.pc[c] = "hs_ping"])

\* (a stream that has failed once fails on every later read)
ReadLine(c, werr, in) ==
  /\ alive /\ pc[c] \in {"hs_ping", "hs_port", "hs_capa", "hs_psync", "hs_rdb"}
  /\ (\E i \in 1 .. Len(hsRead) : hsRead[i].err) => in.err
  /\ Step(c, HandshakeLine(State, c, werr, in))

ReadSnapshot(c, avail) ==
  /\ alive /\ pc[c] = "hs_snapshot"
  /\ Step(c, HandshakeRdb(State, c, avail))

NextHandshake ==
  \/ \E c \in Conns : Dial(c)
  \/ \E c \in Conns : \E werr \in BOOLEAN : \E in \in HsInputs : ReadLine(c, werr, in)
  \/ \E c \in Conns : \E avail \in {0, 88} : ReadSnapshot(c, avail)

SpecHandshake == InitHandshake /\ [][NextHandshake]_vars

\* --------------------------------------------------- a replica, streaming
\* what the leader streams to a replica, and what clients send it, in several
\* frame shapes
ReplicaRequests ==
  {<<"REPLCONF", "GETACK", "*">>, <<"REPLCONF", "GETACK">>, <<"replconf", "getack", "*">>,
   <<"SET", "k", "5">>, <<"GET", "k">>, <<"PING">>}

\* the process was started with --replicaof
InitReplica ==
  /\ Init
  /\ isReplica

\* a frame arrives on the link to the leader, or a request on a client connection
ReceiveStream(c, arr) ==
  /\ alive /\ pc[c] = "read" /\ issued < MaxCmds
  /\ Step(c, handleConnection(State, c, arr))

NextReplica ==
  \/ \E c \in Conns : Accept(c)
  \/ \E c \in Conns : \E arr \in ReplicaRequests : ReceiveStream(c, arr)

SpecReplica == InitReplica /\ [][NextReplica]_vars

\* ------------------------------------------------------- concurrent INCRs
\* the integer the key holds before the INCRs
IncrStart == 5

\* a leader whose store holds the key k with IncrStart
InitIncr == Start(FALSE, MapPut(EmptyMap, "k", [valueString |-> Itoa(IncrStart), expiry |-> <<>>]))

\* a connection sends INCR k
ReceiveIncr(c) ==
  /\ alive /\ pc[c] = "read" /\ issued < MaxCmds
  /\ Step(c, handleConnection(State, c, <<"INCR", "k">>))

NextIncr ==
  \/ \E c \in Conns : Accept(c)
  \/ \E c \in Conns : ReceiveIncr(c)
  \/ \E c \in Conns : WriteIncr(c)

SpecIncr == InitIncr /\ [][NextIncr]_vars

\* --------------------------------------- a transaction and its neighbours
MaxTxCmds == 5     \* requests read over all connections in a run of SpecTx

\* the requests of a transaction over one key
TxRequests == {<<"MULTI">>, <<"EXEC">>, <<"SET", "k", "5">>, <<"INCR", "k">>}

ReceiveTx(c, arr) ==
  /\ alive /\ pc[c] = "read" /\ issued < MaxTxCmds
  /\ Step(c, handleConnection(State, c, arr))

NextTx ==
  \/ \E c \in Conns : Accept(c)
  \/ \E c \in Conns : \E arr \in TxRequests : ReceiveTx(c, arr)
  \/ \E c \in Conns : Propagate(c)
  \/ \E c \in Conns : Exec(c)
  \/ \E c \in Conns : WriteIncr(c)

SpecTx == Init /\ [][NextTx]_vars

\* ------------------------------------------------ readRESPArray on bytes
\* The bytes a connection delivers for one request are a sequence of
\* characters; the reader takes lines and counted blocks off its front.

\* the position of the first "\n" of stream, 0 when it has none
FirstNewline(stream) ==
  IF \E i \in 1 .. Len(stream) : stream[i] = "\n"
  THEN CHOOSE i \in 1 .. Len(stream) :
         stream[i] = "\n" /\ \A j \in 1 .. i - 1 : stream[j] # "\n"
  ELSE 0

\* r.ReadString('\n'): the line up to and with the first "\n"; when the stream
\* ends before one, what was left and an error
ReadString(stream) ==
  LET i == FirstNewline(stream)
  IN IF i = 0 THEN [line |-> stream, rest |-> <<>>, err |-> TRUE]
     ELSE [line |-> SubSeq(stream, 1, i), rest |-> SubSeq(stream, i + 1, Len(stream)),
           err |-> FALSE]

\* io.ReadFull(r, buf) for a buf of k bytes
ReadFull(stream, k) ==
  IF Len(stream) >= k
  THEN [buf |-> SubSeq(stream, 1, k), rest |-> SubSeq(stream, k + 1, Len(stream)),
        nRead |-> k, err |-> FALSE]
  ELSE [buf |-> stream, rest |-> <<>>, nRead |-> Len(stream), err |-> TRUE]

\* the outcomes of readRESPArray: "ok" with the elements read, "err" (it
\* returns an error) or "panic"; counted is what it has added to offset by then
\* on a replica
Outcome(kind, result, counted) == [kind |-> kind, result |-> result, counted |-> counted]

RECURSIVE ReadElements(_, _, _, _)
\* the loop of readRESPArray over the n elements, i of them read
ReadElements(stream, n, result, counted) ==
  IF Len(result) >= n THEN Outcome("ok", result, counted)
  ELSE LET h == ReadString(stream) IN
       IF h.err THEN Outcome("err", <<>>, counted)
       ELSE LET line == TrimSpace(h.line)
                c1 == counted + Len(h.line)
            IN IF line = <<>> THEN Outcome("panic", <<>>, c1)         \* line[0]
               ELSE IF line[1] # "$" THEN Outcome("err", <<>>, c1)
               ELSE LET l == ParseInt(From1(line)) IN
                    IF ~l.ok THEN Outcome("err", <<>>, c1)
                    ELSE IF l.n + 2 < 0 THEN Outcome("panic", <<>>, c1)   \* make([]byte, l+2)
                    ELSE LET b == ReadFull(h.rest, l.n + 2) IN
                         IF b.err THEN Outcome("err", <<>>, c1)
                         ELSE IF l.n < 0 THEN Outcome("panic", <<>>, c1 + b.nRead) \* buf[:l]
                         ELSE ReadElements(b.rest, n,
                                           Append(result, AsString(SubSeq(b.buf, 1, l.n))),
                                           c1 + b.nRead)

\* readRESPArray on the bytes of a connection
ReadArray(stream) ==
  LET h == ReadString(stream) IN
  IF h.err THEN Outcome("err", <<>>, 0)
  ELSE LET line == TrimSpace(h.line) IN
       IF Len(line) = 0 \/ line[1] # "*" THEN Outcome("err", <<>>, Len(h.line))
       ELSE LET n == ParseInt(From1(line)) IN
            IF ~n.ok THEN Outcome("err", <<>>, Len(h.line))
            ELSE IF n.n < 0 THEN Outcome("panic", <<>>, Len(h.line))   \* make([]string, 0, n)
            ELSE ReadElements(h.rest, n.n, <<>>, Len(h.line))

\* well-formed frames
BytesPing == <<"*", "1", "\r", "\n", "$", "4", "\r", "\n", "P", "I", "N", "G", "\r", "\n">>
BytesGet ==
  <<"*", "2", "\r", "\n", "$", "3", "\r", "\n", "G", "E", "T", "\r", "\n",
    "$", "1", "\r", "\n", "k", "\r", "\n">>
BytesIncr ==
  <<"*", "2", "\r", "\n", "$", "4", "\r", "\n", "I", "N", "C", "R", "\r", "\n",
    "$", "1", "\r", "\n", "k", "\r", "\n">>

WellFormed == {BytesPing, BytesGet, BytesIncr}

\* malformed frames: a count that is no number, a negative count, zero
\* elements, no array marker, an empty line, an empty length line, a missing
\* length marker, a length that is no number, negative lengths, and streams
\* that end early
Malformed ==
  {<<"*", "x", "\r", "\n">>,
   <<"*", "-", "1", "\r", "\n">>,
   <<"*", "0", "\r", "\n">>,
   <<"P", "I", "N", "G", "\r", "\n">>,
   <<"\r", "\n">>,
   <<"*", "1", "\r", "\n", "\r", "\n">>,
   <<"*", "1", "\r", "\n", "P", "I", "N", "G", "\r", "\n">>,
   <<"*", "1", "\r", "\n", "$", "x", "\r", "\n">>,
   <<"*", "1", "\r", "\n", "$", "-", "1", "\r", "\n", "P", "\r", "\n">>,
   <<"*", "1", "\r", "\n", "$", "-", "3", "\r", "\n">>,
   <<"*", "1", "\r", "\n", "$", "4", "\r", "\n", "P", "I">>,
   <<"*", "1">>}

\* one round of the main loop of handleConnection on the bytes of the
\* connection: a read error ends the goroutine, a panic the process, and the
\* elements of a frame that was read are dispatched
handleBytes(s, c, stream) ==
  LET r == ReadArray(stream) IN
  IF r.kind = "ok" THEN handleConnection(s, c, r.result)
  ELSE LET s1 == [s EXCEPT !.offset = IF s.isReplica THEN @ + r.counted ELSE @,
                           !.reply[c] = "",
                           !.execStart[c] = <<>>,
                           !.issued = @ + 1,
                           !.last = [conn |-> c, StringArray |-> <<>>]]
       IN IF r.kind = "panic" THEN Exit(s1) ELSE Returned(s1, c)

ReceiveBytes(c, stream) ==
  /\ alive /\ pc[c] = "read" /\ issued < MaxCmds
  /\ Step(c, handleBytes(State, c, stream))

NextBytes ==
  \/ \E c \in Conns : Accept(c)
  \/ \E c \in Conns : \E stream \in WellFormed \cup Malformed : ReceiveBytes(c, stream)
  \/ \E c \in Conns : WriteIncr(c)

SpecBytes == Init /\ [][NextBytes]_vars

\* ------------------------------------------------------ XADD on one stream
\* the identifiers the requests carry: generated, explicit and malformed ones
XaddIds ==
  {<<"*">>, <<"5", "-", "*">>, <<"3", "-", "*">>, <<"0", "-", "*">>, <<"-", "*">>,
   <<"5", "-", "1">>, <<"3", "-", "0">>, <<"9", "-", "0">>, <<"0", "-", "0">>,
   <<"5">>, <<"5", "-", "x">>, <<"5", "-", "1", "-", "2">>}

\* one field per request: named f, or named id; and a request without fields
XaddRequests ==
  {<<"XADD", "s", id, "f", <<"v">>>> : id \in XaddIds}
  \cup {<<"XADD", "s", <<"5", "-", "1">>, "id", <<"0", "-", "0">>>>,
        <<"XADD", "s", <<"5", "-", "1">>, "id", <<"x">>>>,
        <<"XADD", "s", <<"5", "-", "1">>>>}

ReceiveXadd(c, arr) ==
  /\ alive /\ pc[c] = "read" /\ issued < MaxXadds
  /\ Step(c, handleConnection(State, c, arr))

AppendXadd(c) ==
  /\ alive /\ pc[c] = "xadd"
  /\ Step(c, XaddAppend(State, c))

\* a millisecond passes
Tick ==
  /\ alive /\ now < ClockEnd
  /\ Becomes([State EXCEPT !.now = @ + 1])

NextXadd ==
  \/ \E c \in Conns : Accept(c)
  \/ \E c \in Conns : \E arr \in XaddRequests : ReceiveXadd(c, arr)
  \/ \E c \in Conns : AppendXadd(c)
  \/ Tick

SpecXadd == Init /\ [][NextXadd]_vars

\* ------------------------------------------------ expiry of a string key
\* the requests on one key: written with and without PX, read, listed, typed
ExpiryRequests ==
  {<<"SET", "k", "5", "PX", "1">>, <<"SET", "k", "5", "PX", "0">>, <<"SET", "k", "5">>,
   <<"GET", "k">>, <<"KEYS", "*">>, <<"TYPE", "k">>}

NextExpiry ==
  \/ \E c \in Conns : Accept(c)
  \/ \E c \in Conns : \E arr \in ExpiryRequests : Receive(c, arr)
  \/ \E c \in Conns : Propagate(c)
  \/ Tick

SpecExpiry == Init /\ [][NextExpiry]_vars

\* ------------------------------------------------------- one list
\* the requests on one list
ListRequests ==
  {<<"RPUSH", "l", "a", "b", "c">>, <<"RPUSH", "l", "d">>, <<"LPUSH", "l", "x", "y">>,
   <<"LPOP", "l">>, <<"LPOP", "l", "1">>, <<"LPOP", "l", "2">>, <<"LPOP", "l", "4">>,
   <<"LLEN", "l">>, <<"LRANGE", "l", "0", "-1">>, <<"LRANGE", "l", "1", "-4">>}

NextList ==
  \/ \E c \in Conns : Accept(c)
  \/ \E c \in Conns : \E arr \in ListRequests : Receive(c, arr)

SpecList == Init /\ [][NextList]_vars

\* ------------------------------------------------------ one sorted set
RECURSIVE Orders(_)
\* the orders in which the elements of set can be visited
Orders(set) ==
  IF set = {} THEN {<<>>}
  ELSE UNION {{<<x>> \o p : p \in Orders(set \ {x})} : x \in set}

\* the requests on one sorted set: equal scores, score updates, NaN, removals,
\* ranks and ranges
ZsetRequests ==
  {<<"ZADD", "z", "1", "a">>, <<"ZADD", "z", "1", "b">>, <<"ZADD", "z", "2", "a">>,
   <<"ZADD", "z", "0", "c">>, <<"ZADD", "z", "NaN", "c">>,
   <<"ZREM", "z", "a">>, <<"ZREM", "z", "b">>,
   <<"ZRANGE", "z", "0", "-1">>, <<"ZRANGE", "z", "0", "-4">>,
   <<"ZRANK", "z", "a">>, <<"ZRANK", "z", "c">>, <<"ZCARD", "z">>}

\* the next range over a map of members visits them in another order
Reseed ==
  /\ alive
  /\ \E order \in Orders({Members[i] : i \in 1 .. Len(Members)}) :
       order # iterOrder /\ Becomes([State EXCEPT !.iterOrder = order])

NextZset ==
  \/ \E c \in Conns : Accept(c)
  \/ \E c \in Conns : \E arr \in ZsetRequests : Receive(c, arr)
  \/ Reseed

SpecZset == Init /\ [][NextZset]_vars

\* ------------------------------------------- a list and a sorted set
\* the requests that grow, shrink and range over list l and sorted set z
RangeRequests ==
  {<<"RPUSH", "l", "a">>, <<"RPUSH", "l", "b", "c">>, <<"LPOP", "l">>,
   <<"ZADD", "z", "1", "a">>, <<"ZADD", "z", "2", "b">>, <<"ZADD", "z", "3", "c">>,
   <<"ZREM", "z", "a">>,
   <<"LRANGE", "l", "0", "-2">>, <<"ZRANGE", "z", "0", "-2">>,
   <<"LRANGE", "l", "-3", "1">>, <<"ZRANGE", "z", "-3", "1">>}

NextRange ==
  \/ \E c \in Conns : Accept(c)
  \/ \E c \in Conns : \E arr \in RangeRequests : Receive(c, arr)

SpecRange == Init /\ [][NextRange]_vars

\* -------------------------------------------------------- geospatial sets
\* the longitudes and latitudes of the requests: the limits of the accepted
\* domain, points inside it and points beyond it
Longitudes == {"-180", "90", "180", "181"}

Latitudes == {"-85.05112878", "42.52556439", "85.05112878", "90"}

GeoRequests ==
  {<<"GEOADD", "g", lon, lat, "a">> : lon \in Longitudes, lat \in Latitudes}
    \cup {<<"GEOADD", "g", "0", "0", "b">>, <<"GEOADD", "g", "0", "0">>, <<"GEOADD", "g", "east", "0", "a">>,
          <<"GEOADD", "g", "0", "north", "a">>}

\* GEOADD requests read over all connections in one run
MaxGeo == 3

ReceiveGeo(c, arr) ==
  /\ alive /\ pc[c] = "read" /\ issued < MaxGeo
  /\ Step(c, handleConnection(State, c, arr))

NextGeo ==
  \/ \E c \in Conns : Accept(c)
  \/ \E c \in Conns : \E arr \in GeoRequests : ReceiveGeo(c, arr)

SpecGeo == Init /\ [][NextGeo]_vars

\* ------------------------------------------------ publish and subscribe
\* the requests on one channel, and an ordinary command
PubSubRequests ==
  {<<"SUBSCRIBE", "ch">>, <<"UNSUBSCRIBE", "ch">>, <<"PUBLISH", "ch", "m">>, <<"GET", "k">>}

\* main accepts a connection, however many are open
AcceptSession(c) ==
  /\ alive /\ pc[c] = "closed"
  /\ \A b \in Conns : b < c => pc[b] # "closed"
  /\ Step(c, [State EXCEPT !.pc[c] = "read", !.client[c] = NewClient(users)])

\* PUBLISH's loop takes one turn
WritePublish(c) ==
  /\ alive /\ pc[c] = "publish"
  /\ Step(c, PublishWrite(State, c))

NextPubSub ==
  \/ \E c \in Conns : AcceptSession(c)
  \/ \E c \in Conns : \E arr \in PubSubRequests : Receive(c, arr)
  \/ \E c \in Conns : WritePublish(c)

SpecPubSub == Init /\ [][NextPubSub]_vars

\* publish and subscribe with no request taken while a PUBLISH is in its loop
NextPubSubInTurn ==
  \/ \E c \in Conns : AcceptSession(c)
  \/ /\ \A d \in Conns : pc[d] # "publish"
     /\ \E c \in Conns : \E arr \in PubSubRequests : Receive(c, arr)
  \/ \E c \in Conns : WritePublish(c)

SpecPubSubInTurn == Init /\ [][NextPubSubInTurn]_vars

\* ------------------------------------------------- a leader and its replica
\* a command for each way the Data Store changes
MirrorRequests ==
  {<<"SET", "k", "5">>, <<"INCR", "k">>, <<"RPUSH", "l", "a">>, <<"LPUSH", "l", "b">>,
   <<"LPOP", "l">>, <<"ZADD", "z", "1", "a">>, <<"ZREM", "z", "a">>,
   <<"GEOADD", "g", "90", "42.52556439", "a">>,
   <<"XADD", "s", <<"5", "-", "1">>, "f", <<"v">>>>}

InitMirror ==
  /\ Init
  /\ ~isReplica

\* connection 1 is the replica: its PSYNC is the first request, on the empty
\* Data Store
ReceivePsync(c) ==
  /\ alive /\ pc[c] = "read" /\ c = 1 /\ issued = 0
  /\ Step(c, handleConnection(State, c, <<"PSYNC", "?", "-1">>))

\* the commands arrive once the replica is attached
ReceiveMirror(c, arr) ==
  /\ alive /\ pc[c] = "read" /\ issued < MaxCmds /\ 1 \in synced
  /\ Step(c, handleConnection(State, c, arr))

NextMirror ==
  \/ \E c \in Conns : Accept(c)
  \/ \E c \in Conns : ReceivePsync(c)
  \/ \E c \in Conns : SendRdbHeader(c)
  \/ \E c \in Conns : SendRdb(c)
  \/ \E c \in Conns : ReadReplicaClients(c)
  \/ \E c \in Conns : AppendReplica(c)
  \/ \E c \in Conns : \E arr \in MirrorRequests : ReceiveMirror(c, arr)
  \/ \E c \in Conns : Propagate(c)
  \/ \E c \in Conns : WriteIncr(c)
  \/ \E c \in Conns : AppendXadd(c)

SpecMirror == InitMirror /\ [][NextMirror]_vars

\* ----------------------------------------------------------------- claims
\* this step is handleConnection reading request arr on connection c
Received(c, arr) == issued' = issued + 1 /\ last' = [conn |-> c, StringArray |-> arr]

\* the Data Store, the channel registry and the replication state that command
\* execution can change (the replica's count of bytes read is stated apart)
StoreUnchanged ==
  /\ data' = data /\ channelSubscribers' = channelSubscribers
  /\ replOffset' = replOffset /\ replicaClients' = replicaClients
  /\ wire' = wire /\ wlog' = wlog

\* readRESPArray's accounting of the request just read: on a replica the byte
\* count grows by the frame's length, on a leader it does not move
BytesCounted(arr) == offset' = offset + (IF isReplica THEN FrameBytes(arr) ELSE 0)

\* the session's queue grew by exactly the request arr
Queued(c, arr) ==
  /\ Len(queuedCommands'[c]) = Len(queuedCommands[c]) + 1
  /\ SubSeq(queuedCommands'[c], 1, Len(queuedCommands[c])) = queuedCommands[c]
  /\ queuedCommands'[c][Len(queuedCommands'[c])].StringArray = arr

\* C1: while a session is Queuing, every request other than EXEC and DISCARD,
\* whatever its name, is appended to the queue, is not executed, is answered
\* QUEUED and leaves the session Queuing with the earlier commands still queued.
C1_QueuingStoresEveryCommand ==
  [][\A c \in Conns : \A arr \in Requests :
       (Received(c, arr) /\ inTransaction[c] /\ ToLower(arr[1]) \notin {"exec", "discard"})
       => /\ Queued(c, arr)
          /\ reply'[c] = "+QUEUED\r\n"
          /\ inTransaction'[c]
          /\ StoreUnchanged]_vars

\* the step connection c's goroutine takes next when it is inside a handler
Advance(s, c) ==
  CASE s.pc[c] = "prop" -> PropagateWriteCommandToReplicas(s, c)
    [] s.pc[c] = "psync_header" -> PsyncHeader(s, c)
    [] s.pc[c] = "psync_rdb" -> PsyncRdb(s, c)
    [] s.pc[c] = "psync_read" -> PsyncRead(s, c)
    [] s.pc[c] = "psync_append" -> PsyncAppend(s, c)
    [] s.pc[c] = "exec" -> ExecLoop(s, c)
    [] s.pc[c] = "incr" -> IncrWrite(s, c)
    [] s.pc[c] = "xadd" -> XaddAppend(s, c)
    [] s.pc[c] = "publish" -> PublishWrite(s, c)
    [] OTHER -> s

RECURSIVE Finish(_, _)
\* connection c runs alone until it waits for its next request
Finish(s, c) == IF ~s.alive \/ s.pc[c] \in {"read", "closed"} THEN s ELSE Finish(Advance(s, c), c)

RECURSIVE IssueEach(_, _, _, _)
\* connection c, alone and outside a transaction, sends the requests of cmds one
\* after the other: the state reached and the reply to each
IssueEach(s, c, cmds, replies) ==
  IF cmds = <<>> THEN [s |-> s, replies |-> replies]
  ELSE LET s1 == Finish(handleConnection(s, c, Head(cmds).StringArray), c)
       IN IssueEach(s1, c, Tail(cmds), Append(replies, s1.reply[c]))

\* the first n commands that were queued when c's EXEC began, issued instead
\* outside a transaction from the state in which the EXEC began (on a client
\* connection, so that the replies are written)
Untransacted(c, n) ==
  LET s0 == execStart[c][1]
  IN IssueEach([s0 EXCEPT !.inTransaction[c] = FALSE, !.queuedCommands[c] = <<>>,
                          !.connectionToPrimary[c] = FALSE],
               c, SubSeq(s0.queuedCommands[c], 1, n), <<>>)

\* the state agrees with s on the Data Store, the channel registry, the users and
\* what went to the replicas and subscribers
SameEffects(s) ==
  /\ data = s.data /\ channelSubscribers = s.channelSubscribers /\ users = s.users
  /\ replOffset = s.replOffset /\ replicaClients = s.replicaClients
  /\ [c \in Conns |-> [i \in 1 .. Len(wire[c]) |-> wire[c][i].bytes]]
       = [c \in Conns |-> [i \in 1 .. Len(s.wire[c]) |-> s.wire[c][i].bytes]]
  /\ alive = s.alive

\* what holds of an EXEC on connection c: between two queued commands the
\* results so far are the replies of the commands run so far; when no other
\* connection has taken a step since the EXEC began, results and effects are those
\* of issuing the same commands, in queue order, outside a transaction; and the
\* EXEC ends with the array of the replies, the session Normal, the queue empty
ExecAsUntransacted(c) ==
  /\ pc[c] = "exec"
       => /\ ~inTransaction[c]
          /\ execIdx[c] \in 1 .. Len(queuedCommands[c]) + 1
          /\ Len(results[c]) = execIdx[c] - 1
  /\ (pc[c] = "exec" /\ execStart[c] # <<>>)
       => LET ref == Untransacted(c, execIdx[c] - 1)
          IN results[c] = ref.replies /\ SameEffects(ref.s)
  /\ (pc[c] = "read" /\ execStart[c] # <<>>)
       => LET n == Len(execStart[c][1].queuedCommands[c])
              ref == Untransacted(c, n)
          IN /\ reply[c] = "*" \o Itoa(n) \o CRLF \o Concat(ref.replies)
             /\ Len(ref.replies) = n
             /\ SameEffects(ref.s)
             /\ ~inTransaction[c] /\ queuedCommands[c] = <<>>

\* the part of C2 that the code keeps: as long as the process runs, every EXEC is
\* as ExecAsUntransacted says
ExecRunsQueueInOrder == alive => \A c \in Conns : ExecAsUntransacted(c)

\* C2: EXEC in Queuing runs the queued commands in queue order, each once, and
\* replies one array holding the reply of each in that order; no queued command
\* stops the later ones, so an EXEC running alone is never cut short by one of
\* its own commands; afterwards the session is Normal and its queue is empty.
\* When no other connection takes a step meanwhile, the store is the one of
\* issuing the same commands outside a transaction.
C2_ExecRunsQueueInOrder ==
  /\ \A c \in Conns : (execIdx[c] > 0 /\ execStart[c] # <<>>) => alive
  /\ ExecRunsQueueInOrder

\* nothing but the session's own transaction state, its reply and the byte count
\* of the request moved: no command was executed on behalf of c
OnlyAnswered(c, arr) ==
  /\ StoreUnchanged /\ BytesCounted(arr)
  /\ users' = users /\ client' = client /\ alive' = alive
  /\ pc'[c] = "read" /\ execIdx'[c] = 0

NoEffect(c) ==
  /\ inTransaction'[c] = inTransaction[c] /\ queuedCommands'[c] = queuedCommands[c]
  /\ StoreUnchanged

\* C5: for a session whose Authenticated flag is false, every command other than
\* AUTH, in every transaction state, is answered with the NOAUTH error and has no
\* effect on the session's transaction state, the Data Store, the channel
\* registry or the replication state (stated for the client connections: on a
\* replica's link to its leader no reply is written at all).
C5_UnauthenticatedOnlyAuth ==
  [][\A c \in Conns : \A arr \in Requests :
       (Received(c, arr) /\ ~client[c].Authenticated /\ ~connectionToPrimary[c]
          /\ ToLower(arr[1]) # "auth")
       => /\ reply'[c] = "-NOAUTH Authentication required\r\n"
          /\ NoEffect(c)]_vars

\* C6: for a session in subscribed mode, every command outside the
\* subscribe/unsubscribe family and PING, QUIT is answered with the restriction
\* error and has no effect on the session's transaction state, the Data Store or
\* the replication state (stated for the client connections, as C5).
C6_SubscribedModeRestricts ==
  [][\A c \in Conns : \A arr \in Requests :
       (Received(c, arr) /\ client[c].SubscribedMode /\ ~connectionToPrimary[c]
          /\ ToLower(arr[1]) \notin allowedInSubscribeMode)
       => /\ reply'[c] = "-ERR Can't execute '" \o ToLower(arr[1])
                         \o "': only (P|S)SUBSCRIBE / (P|S)UNSUBSCRIBE / PING / QUIT / RESET are allowed in this context\r\n"
          /\ NoEffect(c)]_vars

\* the propagated frames written to connection c, in the order they were written
Frames(c) == SelectSeq(wire[c], LAMBDA w : w.kind = "frame")

\* C7: on a leader, no replica connection has been sent the frame of a SET
\* whose switch case (the change of the leader's own Data Store) has not run yet.
C7_AppliedBeforePropagated ==
  ~isReplica =>
    \A c \in Conns : \A i \in 1 .. Len(Frames(c)) :
      ToLower(wlog[Frames(c)[i].id].StringArray[1]) = "set" => Frames(c)[i].id \in applied

RECURSIVE SumFrameBytes(_)
\* the sum of the frame lengths of the write commands in log
SumFrameBytes(log) ==
  IF log = <<>> THEN 0 ELSE FrameBytes(Head(log).StringArray) + SumFrameBytes(Tail(log))

\* C8: on a leader, replOffset equals the sum of the byte lengths of the request
\* frames of the write commands processed so far.
C8_ReplOffsetCountsFrames == ~isReplica => replOffset = SumFrameBytes(wlog)

\* C9: every write command the leader has processed and propagated has been
\* written exactly once, as the frame of its own arguments, to every connection
\* that had completed PSYNC when the command was processed, and every connection
\* has received its frames in the order the leader processed the writes.
C9_EveryReplicaGetsEveryWriteOnce ==
  ~isReplica =>
    \A c \in Conns :
      /\ \A i \in 1 .. Len(wlog) :
           (c \in wlog[i].synced /\ i \in applied)
           => /\ Cardinality({j \in 1 .. Len(Frames(c)) : Frames(c)[j].id = i}) = 1
              /\ \A j \in 1 .. Len(Frames(c)) :
                   Frames(c)[j].id = i
                   => Frames(c)[j].bytes = StringArrayToBulkStringArray(wlog[i].StringArray)
      /\ \A j, k \in 1 .. Len(Frames(c)) : j < k => Frames(c)[j].id <= Frames(c)[k].id

\* what PSYNC writes to connection c, in the order it was written
Snapshots(c) == SelectSeq(wire[c], LAMBDA w : w.kind \in {"fullresync", "rdblen", "rdb"})

\* the three writes of one PSYNC, in order
SnapshotOrder == <<"fullresync", "rdblen", "rdb">>

\* C10: PSYNC ? -1 writes the full-resync line, the snapshot length header and
\* the snapshot bytes to the requesting connection in this order, and only then
\* is the connection in the replica list; under every interleaving, a propagated
\* write frame on a connection comes after a completely written snapshot.
C10_SnapshotBeforeFrames ==
  \A c \in Conns :
    /\ \A i \in 1 .. Len(Snapshots(c)) :
         /\ Snapshots(c)[i].kind = SnapshotOrder[((i - 1) % 3) + 1]
         /\ Snapshots(c)[i].kind = "rdblen" => Snapshots(c)[i].bytes = "$88\r\n"
         /\ Snapshots(c)[i].kind = "rdb" => Snapshots(c)[i].bytes = emptyRDB
    /\ (InSeq(replicaClients, c)
          \/ \E b \in Conns : InSeq(propList[b], c) \/ InSeq(rcLocal[b], c))
         => \E i \in 1 .. Len(wire[c]) : wire[c][i].kind = "rdb"
    /\ \A j \in 1 .. Len(wire[c]) :
         wire[c][j].kind = "frame"
         => \E i \in 1 .. j - 1 : wire[c][i].kind = "rdb"

\* a write frame has reached a replica while another connection was inside PSYNC
C10_Witness ==
  \E c, r \in Conns :
    /\ Len(Frames(r)) > 0 /\ Len(Snapshots(r)) = 3
    /\ c # r /\ pc[c] \in {"psync_header", "psync_rdb", "psync_read", "psync_append"}

\* the handshake read, in order, PONG, OK, OK, a +FULLRESYNC line, the length
\* line of a snapshot and the whole snapshot, each without a read error
ExpectedReplies ==
  /\ Len(hsRead) = 6
  /\ \A i \in 1 .. 6 : ~hsRead[i].err
  /\ hsRead[1].line = LinePong /\ hsRead[2].line = LineOk /\ hsRead[3].line = LineOk
  /\ HasPrefix(hsRead[4].line, SubSeq(LineFullResync, 1, 11))
  /\ hsRead[5].line = LineRdbLen

\* C11: the link to the leader is in the command loop only if every handshake
\* step read its expected reply, in order and without a read failure; and no
\* reply of the leader ends the process.
C11_HandshakeStrict ==
  /\ alive
  /\ \A c \in Conns : (connectionToPrimary[c] /\ pc[c] = "read") => ExpectedReplies

\* the last request read on connection c is a REPLCONF GETACK
LastIsGetack(c) ==
  /\ last.conn = c /\ Len(last.StringArray) >= 2
  /\ ToLower(last.StringArray[1]) = "replconf" /\ ToLower(last.StringArray[2]) = "getack"

\* C12: a replica in Streaming writes nothing to its link to the leader, whatever
\* the leader sends, except the answer to REPLCONF GETACK.
C12_SilentTowardsLeader ==
  \A c \in Conns :
    connectionToPrimary[c]
    => /\ wire[c] = <<>>
       /\ reply[c] # "" => LastIsGetack(c)

\* request arr is a REPLCONF GETACK, as handleConnection recognises it
IsGetack(arr) ==
  Len(arr) >= 2 /\ ToLower(arr[1]) = "replconf" /\ ToLower(arr[2]) = "getack"

\* C13: a replica that reads REPLCONF GETACK on its link to the leader answers
\* REPLCONF ACK n, n being its byte counter at that moment (read either as the
\* counter before the GETACK frame was counted or after), and n is not negative.
C13_GetackAnswersOffset ==
  [][\A c \in Conns : \A arr \in ReplicaRequests :
       (Received(c, arr) /\ connectionToPrimary[c] /\ IsGetack(arr))
       => \E n \in {offset, offset'} :
            /\ n >= 0
            /\ reply'[c] = StringArrayToBulkStringArray(<<"REPLCONF", "ACK", Itoa(n)>>)]_vars

\* C14: on a replica the byte counter grows by the length of every frame read
\* on the link to the leader and by nothing else, so it always equals the total
\* length of the frames read from the leader.
C14_OffsetCountsLeaderFrames ==
  [][\A c \in Conns : \A arr \in ReplicaRequests :
       Received(c, arr)
       => offset' = offset + (IF connectionToPrimary[c] THEN FrameBytes(arr) ELSE 0)]_vars

\* no INCR is between its read and its write
NoIncrInFlight == \A c \in Conns : pc[c] \in {"read", "closed"}

\* C15: INCR is atomic across connections: once the INCRs issued so far on a key
\* holding IncrStart have all been answered, the key holds IncrStart plus their
\* number, and the replies the connections hold are distinct values among
\* IncrStart + 1 .. IncrStart + that number.
C15_IncrAtomic ==
  NoIncrInFlight
  => /\ data["k"].valueString = Itoa(IncrStart + issued)
     /\ \A c \in Conns :
          reply[c] # "" => \E i \in 1 .. issued : reply[c] = ":" \o Itoa(IncrStart + i) \o CRLF
     /\ \A c, d \in Conns : (c # d /\ reply[c] # "") => reply[c] # reply[d]

\* connection c is inside an EXEC, past its first queued command and before the
\* end of its last
MidExec(c) == execIdx[c] \in 2 .. Len(queuedCommands[c])

\* C16: EXEC runs its queued commands as one critical section: while a
\* connection is between the first and the last queued command of its EXEC, the
\* Data Store changes only by a step of that EXEC.
C16_ExecCriticalSection ==
  [][\A c \in Conns : (MidExec(c) /\ data' # data) => execIdx'[c] # execIdx[c]]_vars

\* a request whose numeric argument cannot be parsed
BadArguments == <<"SET", "k", "5", "PX", "abc">>

\* the error replies of the commands of the model
ErrorReplies ==
  {"-ERR value is not an integer or out of range\r\n",
   "-ERR syntax error\r\n",
   "-ERR wrong number of arguments for 'set' command\r\n",
   "-NOAUTH Authentication required\r\n",
   "-ERR Can't execute 'set': only (P|S)SUBSCRIBE / (P|S)UNSUBSCRIBE / PING / QUIT / RESET are allowed in this context\r\n"}

\* C17: a command with an unparsable numeric argument is answered with an error
\* reply on its connection, and the process keeps running, so that every
\* connection continues to be served.
C17_BadArgumentsAnswered ==
  /\ alive
  /\ \A c \in Conns :
       (last = [conn |-> c, StringArray |-> BadArguments] /\ pc[c] = "read"
          /\ ~inTransaction[c] /\ ~connectionToPrimary[c])
       => reply[c] \in ErrorReplies

\* C18: a malformed request frame ends only the connection it arrived on: the
\* process keeps running, the connection's goroutine returns, and the other
\* connections and the shared state are as before.
C18_MalformedFrameEndsConnection ==
  [][\A c \in Conns : \A stream \in Malformed :
       ReceiveBytes(c, stream)
       => /\ alive'
          /\ pc'[c] = "returned"
          /\ \A d \in Conns \ {c} : pc'[d] = pc[d] /\ client'[d] = client[d]
          /\ data' = data /\ channelSubscribers' = channelSubscribers
          /\ replOffset' = replOffset /\ replicaClients' = replicaClients]_vars

\* the (ms, sequence) pair a stored identifier spells, ok when it spells one
StoredId(entry) ==
  LET parts == Split(entry["id"])
      ms == ParseInt(parts[1])
      seq == IF Len(parts) = 2 THEN ParseInt(parts[2]) ELSE [ok |-> FALSE, n |-> 0]
  IN [ok |-> Len(parts) = 2 /\ ms.ok /\ seq.ok /\ ms.n >= 0 /\ seq.n >= 0,
      ms |-> ms.n, seq |-> seq.n]

\* (ms, sequence) comparison
IdLess(x, y) == x.ms < y.ms \/ (x.ms = y.ms /\ x.seq < y.seq)

\* C19: the identifiers stored in each stream are strictly increasing in append
\* order under (ms, sequence) numeric comparison, and none is 0-0.
C19_StreamIdsIncrease ==
  \A key \in DOMAIN streams :
    LET entries == streams[key] IN
    /\ \A i \in 1 .. Len(entries) :
         StoredId(entries[i]).ok
         /\ ~(StoredId(entries[i]).ms = 0 /\ StoredId(entries[i]).seq = 0)
    /\ \A i \in 1 .. Len(entries) : \A j \in 1 .. Len(entries) :
         i < j => IdLess(StoredId(entries[i]), StoredId(entries[j]))

\* the requests with an explicit identifier, well formed or not
ExplicitRequests ==
  {arr \in XaddRequests :
     Len(arr) >= 4 /\ Len(arr) % 2 = 1
     /\ arr[3] # <<"*">> /\ ~HasSuffix(arr[3], <<"-", "*">>)}

\* ms-seq with ms >= 0, seq >= 0, not 0-0, and above the last entry of entries
Acceptable(entries, entryID) ==
  LET id == StoredId([id |-> entryID]) IN
  /\ id.ok
  /\ ~(id.ms = 0 /\ id.seq = 0)
  /\ \/ entries = <<>>
     \/ /\ StoredId(entries[Len(entries)]).ok
        /\ IdLess(StoredId(entries[Len(entries)]), id)

XaddErrors ==
  {"-ERR invalid stream ID format\r\n", "-ERR invalid stream ID values\r\n",
   "-ERR The ID specified in XADD must be greater than 0-0\r\n",
   "-ERR The ID specified in XADD is equal or smaller than the target stream top item\r\n"}

\* C20: XADD with an explicit identifier is accepted exactly when the
\* identifier is ms-seq with ms >= 0, seq >= 0, not 0-0 and above the
\* identifier of the stream's last entry (or the stream is empty); otherwise
\* the reply is an error and the stream is left unmodified.
C20_ExplicitIdAcceptance ==
  [][\A c \in Conns : \A arr \in ExplicitRequests :
       (ReceiveXadd(c, arr) /\ ~connectionToPrimary[c])
       => IF Acceptable(MapGet(streams, arr[2], <<>>), arr[3])
          THEN /\ alive' /\ pc'[c] = "xadd"
               /\ xaddLocal'[c].entryID = arr[3]
          ELSE /\ alive' /\ pc'[c] = "read"
               /\ reply'[c] \in XaddErrors
               /\ streams' = streams]_vars

\* C27: the offset in the full-resync line written for PSYNC is the leader's
\* replOffset at that moment.
C27_FullResyncCarriesOffset ==
  [][\A c \in Conns :
       (pc[c] # "psync_header" /\ pc'[c] = "psync_header")
       => wire'[c][Len(wire'[c])].bytes
            = "+FULLRESYNC " \o replID \o " " \o Itoa(replOffset) \o CRLF]_vars

\* a PSYNC has just written its full-resync line on a leader that has applied
\* a write command
C27_Witness ==
  \E c \in Conns : pc[c] = "psync_header" /\ ~isReplica /\ applied # {}

\* the requests with a partial-auto identifier ms-*, and the ms they name
PartialRequests ==
  {arr \in XaddRequests :
     Len(arr) >= 4 /\ Len(arr) % 2 = 1 /\ HasSuffix(arr[3], <<"-", "*">>)
     /\ Len(Split(arr[3])) = 2 /\ ParseInt(Split(arr[3])[1]).ok
     /\ ParseInt(Split(arr[3])[1]).n >= 0}

\* one more than the sequence of the most recent entry of entries whose ms part
\* is ms; without such an entry 0, or 1 when ms is 0
NextSeq(entries, ms) ==
  LET same == {i \in 1 .. Len(entries) :
                 StoredId(entries[i]).ok /\ StoredId(entries[i]).ms = ms}
  IN IF same = {} THEN (IF ms = 0 THEN 1 ELSE 0)
     ELSE StoredId(entries[CHOOSE i \in same : \A j \in same : j <= i]).seq + 1

\* C28: XADD k ms-* with ms >= 0 appends an entry whose identifier is ms-seq,
\* seq being one more than the sequence of the most recent entry with that ms,
\* 0 without such an entry, 1 when ms is 0 without such an entry; the reply is
\* that identifier.
C28_PartialAutoSequence ==
  [][\A c \in Conns :
       /\ \A arr \in PartialRequests :
            (ReceiveXadd(c, arr) /\ ~connectionToPrimary[c])
            => LET ms == ParseInt(Split(arr[3])[1]).n IN
               /\ alive' /\ pc'[c] = "xadd"
               /\ xaddLocal'[c].entryID
                    = SprintfId(ms, NextSeq(MapGet(streams, arr[2], <<>>), ms))
       /\ (AppendXadd(c) /\ ~connectionToPrimary[c] /\ last.conn = c
             /\ last.StringArray \in PartialRequests)
          => LET now1 == streams'[xaddLocal[c].key] IN
             /\ now1[Len(now1)]["id"] = xaddLocal[c].entryID
             /\ reply'[c] = StringToBulkString(AsString(xaddLocal[c].entryID))]_vars

\* key holds a value whose expiry instant has been reached
Expired(key) ==
  key \in DOMAIN data /\ data[key].expiry # <<>> /\ now >= data[key].expiry[1]

\* the step in which the switch case of connection c's SET request arr runs:
\* on a leader after the propagation, on a replica when the request is read
SetRuns(c, arr) ==
  \/ isReplica /\ Receive(c, arr)
  \/ /\ ~isReplica /\ pc[c] = "prop" /\ propList[c] = <<>>
     /\ cur[c].StringArray = arr /\ Propagate(c)

\* C21: SET k v PX ms gives k the expiry instant now + ms, and SET k v without
\* PX gives it none; a GET k at or after the expiry instant returns null and
\* removes nothing; KEYS * still lists k and TYPE k still reports string.
C21_LazyExpiry ==
  [][\A c \in Conns :
       /\ \A arr \in {r \in ExpiryRequests : r[1] = "SET"} :
            SetRuns(c, arr)
            => /\ "k" \in DOMAIN data'
               /\ data'["k"].expiry
                    = IF Len(arr) = 5 THEN <<now + Atoi(arr[5]).n>> ELSE <<>>
       /\ (Receive(c, <<"GET", "k">>) /\ ~connectionToPrimary[c] /\ Expired("k"))
          => reply'[c] = "$-1\r\n" /\ data' = data
       /\ (Receive(c, <<"KEYS", "*">>) /\ ~connectionToPrimary[c]
             /\ "k" \in DOMAIN data)
          => reply'[c] = StringArrayToBulkStringArray(<<"k">>) /\ data' = data
       /\ (Receive(c, <<"TYPE", "k">>) /\ ~connectionToPrimary[c]
             /\ "k" \in DOMAIN data)
          => reply'[c] = "+string\r\n" /\ data' = data
       /\ "k" \in DOMAIN data => "k" \in DOMAIN data']_vars

\* a GET of the key, whose expiry instant has passed, has been answered with
\* null and the key is still in the store
C21_Witness ==
  \E c \in Conns :
    /\ last = [conn |-> c, StringArray |-> <<"GET", "k">>] /\ pc[c] = "read"
    /\ ~connectionToPrimary[c] /\ reply[c] = "$-1\r\n" /\ Expired("k")

\* the smaller of two numbers
Min(x, y) == IF x < y THEN x ELSE y

\* C23: LPOP k count on a list of n > 0 elements removes its first
\* min(count, n) elements and returns them in order, as one value when count
\* is 1 or omitted and as an array otherwise, and leaves the rest in order; on
\* a missing or empty list it returns null and changes nothing.
C23_LpopCount ==
  [][\A c \in Conns : \A arr \in {r \in ListRequests : r[1] = "LPOP"} :
       (Receive(c, arr) /\ ~connectionToPrimary[c])
       => LET list == MapGet(listData, arr[2], <<>>)
              count == IF Len(arr) >= 3 THEN Atoi(arr[3]).n ELSE 1
              k == Min(count, Len(list))
          IN IF list = <<>>
             THEN reply'[c] = "$-1\r\n" /\ listData' = listData
             ELSE /\ alive'
                  /\ listData' = [listData EXCEPT ![arr[2]] = SubSeq(list, k + 1, Len(list))]
                  /\ reply'[c] = IF count = 1 THEN StringToBulkString(list[1])
                                 ELSE StringArrayToBulkStringArray(SubSeq(list, 1, k))]_vars

\* the member names of sorted set k in the order ZRANGE k 0 -1 replies them
FullRange(k) == zrange(State, k, 0, -1)

\* C25: for every sorted set ZADD and ZREM have built, ZRANGE k 0 -1 lists
\* every member exactly once, no member comes after one that is greater in
\* (score, member name), and ZRANK of the member at position i replies i,
\* whatever order the map is visited in when ZRANK runs.
C25_RangeOrderAndRank ==
  \A k \in DOMAIN sortedSets :
    LET range == FullRange(k) IN
    /\ Len(range) = Cardinality(DOMAIN sortedSets[k])
    /\ {range[i] : i \in 1 .. Len(range)} = DOMAIN sortedSets[k]
    /\ \A i \in 1 .. Len(range) : \A j \in 1 .. Len(range) :
         i < j => ~MemberLess([Member |-> range[j], Score |-> sortedSets[k][range[j]]],
                              [Member |-> range[i], Score |-> sortedSets[k][range[i]]])
    /\ \A i \in 1 .. Len(range) :
         \A order \in Orders({Members[n] : n \in 1 .. Len(Members)}) :
           zrank([State EXCEPT !.iterOrder = order], k, range[i]) = i - 1

\* the same, for the sets in which every score is a number
C25_HoldsWithoutNaN ==
  (\A k \in DOMAIN sortedSets : \A m \in DOMAIN sortedSets[k] : ~sortedSets[k][m].nan)
  => C25_RangeOrderAndRank

\* the indexes a range request is tried with
RangeIndexes == -4 .. 4

\* C24: whenever list l and sorted set z hold the same number of elements,
\* LRANGE l start stop and ZRANGE z start stop select the same positions, for
\* every start and stop, positive or negative.
C24_SameWindow ==
  LET n == Len(MapGet(listData, "l", <<>>))
      m == Cardinality(DOMAIN MapGet(sortedSets, "z", EmptyMap))
  IN n = m => \A start \in RangeIndexes : \A stop \in RangeIndexes :
                LrangeWindow(n, start, stop) = ZrangeWindow(m, start, stop)

\* the positions differ only where stop is negative beyond the length
C24_SameWindowInsideLength ==
  LET n == Len(MapGet(listData, "l", <<>>))
      m == Cardinality(DOMAIN MapGet(sortedSets, "z", EmptyMap))
  IN n = m => \A start \in RangeIndexes : \A stop \in RangeIndexes :
                stop >= -n => LrangeWindow(n, start, stop) = ZrangeWindow(m, start, stop)

\* score < 2^52: no binary digit from digit 52 on
Below52Bits(v) == \A i \in BitIndexes : i >= 2 * PrecisionBits => v[i] = 0

\* the decoded point is inside the accepted domain: on both axes the centre is
\* between the axis minimum and the axis maximum
InsideDomain(p) ==
  /\ 0 <= p.Latitude.num /\ p.Latitude.num <= p.Latitude.den
  /\ 0 <= p.Longitude.num /\ p.Longitude.num <= p.Longitude.den

\* C26: every score GEOADD has stored is an integer below 2^52 whose two grid
\* indexes are in 0 .. 2^26 - 1 and which decodes to a point inside the domain
\* GEOADD accepts.
C26_GeoScoreIn52Bits ==
  \A k \in DOMAIN sortedSets : \A m \in DOMAIN sortedSets[k] :
    LET score == sortedSets[k][m].v IN
    /\ Below52Bits(score)
    /\ compactInt64ToInt32(score) < Pow2(PrecisionBits)
    /\ compactInt64ToInt32(ShiftRight(score, 1)) < Pow2(PrecisionBits)
    /\ InsideDomain(GeospatialDecode(score))

\* the grid indexes go one beyond the grid and no further: 0 .. 2^26
C26_GridIndexAtMostPrecision ==
  \A k \in DOMAIN sortedSets : \A m \in DOMAIN sortedSets[k] :
    /\ compactInt64ToInt32(sortedSets[k][m].v) <= Pow2(PrecisionBits)
    /\ compactInt64ToInt32(ShiftRight(sortedSets[k][m].v, 1)) <= Pow2(PrecisionBits)

\* C29: a session is in subscribed mode exactly while it is subscribed to at
\* least one channel.
C29_ModeIffSubscribed ==
  \A c \in Conns : client[c].SubscribedMode <=> client[c].SubscribedChannels # {}

\* what does hold: a session subscribed to a channel is in subscribed mode
C29_SubscribedImpliesMode ==
  \A c \in Conns : client[c].SubscribedChannels # {} => client[c].SubscribedMode

\* the connections subscribed to channel
Subscribed(channel) == {k \in Conns : channel \in client[k].SubscribedChannels}

\* connection c's PUBLISH takes a turn of its loop, writing to connection k
Notifies(c, k) ==
  /\ WritePublish(c) /\ pubLocal[c].idx <= pubLocal[c].len
  /\ Len(wire'[k]) = Len(wire[k]) + 1

\* C22: a PUBLISH starts from the connections subscribed to its channel, each
\* once; every turn of its loop writes one [message, channel, payload] to a
\* connection that is subscribed to the channel and that this PUBLISH has not
\* written to before, and to no other connection; and the count it returns is
\* the number of connections it has written to.
C22_PublishNotifiesEachOnce ==
  [][\A c \in Conns :
       /\ (pc[c] # "publish" /\ pc'[c] = "publish")
          => LET l == pubLocal'[c] IN
             /\ l.len = Cardinality(Subscribed(l.channel))
             /\ l.len > 0 => {arrays[l.array][i] : i \in 1 .. l.len} = Subscribed(l.channel)
       /\ \A k \in Conns :
            Notifies(c, k)
            => /\ k \in Subscribed(pubLocal[c].channel)
               /\ ~InSeq(pubLocal[c].sent, k)
               /\ wire'[k][Len(wire'[k])].bytes
                    = EncodeArray(<<[Type |-> "BulkString", Value |-> "message"],
                                    [Type |-> "BulkString", Value |-> pubLocal[c].channel],
                                    [Type |-> "BulkString", Value |-> pubLocal[c].message]>>)
               /\ \A other \in Conns \ {k} : wire'[other] = wire[other]
       /\ (WritePublish(c) /\ pubLocal[c].idx > pubLocal[c].len /\ ~connectionToPrimary[c]
             /\ execIdx[c] = 0)
          => /\ reply'[c] = ":" \o Itoa(Cardinality({pubLocal[c].sent[i] :
                                                      i \in 1 .. Len(pubLocal[c].sent)})) \o CRLF
             /\ \A k \in Conns : wire'[k] = wire[k]]_vars

\* the part of it that needs no judgement of when a subscription ends: no
\* PUBLISH writes to one connection twice
C22_NoConnectionNotifiedTwice ==
  \A c \in Conns : \A i \in 1 .. Len(pubLocal[c].sent) : \A j \in 1 .. Len(pubLocal[c].sent) :
    pubLocal[c].sent[i] = pubLocal[c].sent[j] => i = j

\* a replica process that has just finished its handshake: its Data Store is
\* empty and connection 1 is its link to the leader
FreshReplica ==
  [State EXCEPT !.isReplica = TRUE, !.data = EmptyMap, !.listData = EmptyMap,
                !.sortedSets = EmptyMap, !.streams = EmptyMap,
                !.replicaClients = <<>>, !.channelSubscribers = EmptyMap,
                !.connectionToPrimary = [c \in Conns |-> c = 1],
                !.pc = [c \in Conns |-> IF c = 1 THEN "read" ELSE "closed"],
                !.inTransaction = [c \in Conns |-> FALSE],
                !.queuedCommands = [c \in Conns |-> <<>>],
                !.client = [c \in Conns |-> NewClient(InitUsers)],
                !.execIdx = [c \in Conns |-> 0]]

RECURSIVE Applies(_, _)
\* the replica s after it has read and run the frames from its link, in order
Applies(s, frames) ==
  IF frames = <<>> THEN s
  ELSE Applies(Finish(handleConnection(s, 1, wlog[Head(frames).id].StringArray), 1), Tail(frames))

\* no command is in flight
Quiescent == \A c \in Conns : pc[c] \in {"read", "closed"}

\* C30: when the replica on connection 1, attached on the empty Data Store, has
\* applied every frame sent to it and no command is in flight, it holds the
\* leader's strings, lists, sorted sets and streams.
C30_ReplicaMirrorsLeader ==
  (alive /\ 1 \in synced /\ Quiescent)
  => LET replica == Applies(FreshReplica, Frames(1)) IN
     /\ replica.data = data
     /\ replica.listData = listData
     /\ replica.sortedSets = sortedSets
     /\ replica.streams = streams

\* what is mirrored: as long as SET alone has changed the leader's Data Store,
\* the replica holds the leader's strings
C30_SetIsMirrored ==
  (alive /\ 1 \in synced /\ Quiescent /\ Len(wlog) = issued - 1)
  => Applies(FreshReplica, Frames(1)).data = data

\* what ProcessCommand returns in the step connection c takes: to EXEC's
\* results inside a transaction, to the connection otherwise
Answer(c) == IF execIdx[c] > 0 THEN results'[c][Len(results'[c])] ELSE reply'[c]

\* C32: when a command of connection c ends its propagation loop on a leader
\* and its switch answers with the unknown-command error, leaving the Data
\* Store as it was, no replica connection has been written its frame.
C32_ErrorNotPropagated ==
  [][\A c \in Conns :
       (Propagate(c) /\ propList[c] = <<>> /\ alive'
          /\ Answer(c) = "-ERR unknown command\r\n"
          /\ data' = data /\ listData' = listData /\ sortedSets' = sortedSets
          /\ streams' = streams)
       => \A r \in Conns : \A i \in 1 .. Len(wire[r]) :
            wire[r][i].kind = "frame" => wire[r][i].id # cur[c].id]_vars

\* what does hold: a frame is written for the write commands alone, SET and DEL
C32_OnlyWriteCommandsPropagated ==
  \A r \in Conns : \A i \in 1 .. Len(Frames(r)) :
    ToLower(wlog[Frames(r)[i].id].StringArray[1]) \in writeCommand

\* connection c waits for a request that ProcessCommand will run at once and
\* answer on the connection
Idle(c) ==
  /\ alive /\ pc[c] = "read" /\ ~connectionToPrimary[c] /\ ~inTransaction[c]
  /\ client[c].Authenticated /\ ~client[c].SubscribedMode

\* the replies to the requests of cmds sent by connection c from this state,
\* one after the other, no other connection taking a step
RepliesTo(c, cmds) ==
  IssueEach(State, c, [i \in 1 .. Len(cmds) |-> [StringArray |-> cmds[i]]], <<>>).replies

\* INCR k followed by GET k agree, and INCR starts a key GET reports absent at 1
IncrAgreesWithGet(c) ==
  LET r == RepliesTo(c, <<<<"INCR", "k">>, <<"GET", "k">>>>) IN
  /\ \A n \in AtoiRange :
       r[1] = ":" \o Itoa(n) \o CRLF => r[2] = StringToBulkString(Itoa(n))
  /\ RepliesTo(c, <<<<"GET", "k">>>>)[1] = "$-1\r\n" => r[1] = ":1\r\n"

\* C33: whatever k holds (nothing, a string without expiry, a string whose
\* expiry is ahead, a string whose expiry has passed), when INCR k replies the
\* integer n the GET k that follows returns n, and INCR replies 1 for a key that
\* GET reports as absent.
C33_IncrAgreesWithGet == \A c \in Conns : Idle(c) => IncrAgreesWithGet(c)

\* the same, for the states in which the expiry of k, if it has one, is ahead
C33_HoldsUnlessExpired ==
  ("k" \in DOMAIN data => (data["k"].expiry = <<>> \/ now < data["k"].expiry[1]))
  => C33_IncrAgreesWithGet

\* ------------------------------------------------ a connection closes
\* the peer closes the connection: readRESPArray returns io.EOF (or another
\* error) and handleConnection returns; it has no deferred call and runs nothing
\* on the way out, so channelSubscribers, replicaClients and the Client record
\* stay as they are
Close(c) ==
  /\ alive /\ pc[c] = "read"
  /\ Step(c, Returned(State, c))

CloseRequests ==
  {<<"SUBSCRIBE", "ch">>, <<"PUBLISH", "ch", "m">>, <<"PSYNC", "?", "-1">>,
   <<"SET", "k", "5">>}

NextClose ==
  \/ \E c \in Conns : Accept(c)
  \/ \E c \in Conns : \E arr \in CloseRequests : Receive(c, arr)
  \/ \E c \in Conns : Close(c)
  \/ \E c \in Conns : WritePublish(c)
  \/ \E c \in Conns : Propagate(c)
  \/ \E c \in Conns : SendRdbHeader(c)
  \/ \E c \in Conns : SendRdb(c)
  \/ \E c \in Conns : ReadReplicaClients(c)
  \/ \E c \in Conns : AppendReplica(c)

SpecClose == Init /\ [][NextClose]_vars

Closed(c) == pc[c] = "returned"

Registered(c) ==
  \/ InSeq(replicaClients, c)
  \/ \E ch \in DOMAIN channelSubscribers : InSeq(channelSubscribers[ch], c)

\* C31: channelSubscribers and replicaClients contain only connections that are
\* still open: a connection whose handleConnection has returned is in neither.
C31_RegistriesHoldOpenConnections ==
  \A c \in Conns : Closed(c) => ~Registered(c)

\* a PUBLISH enters its loop, and the connections its count will count
PublishStarts(p) == pc[p] = "read" /\ pc'[p] = "publish"

PublishRecipients(p) ==
  [i \in 1 .. pubLocal'[p].len |-> arrays'[pubLocal'[p].array][i]]

\* C31, what a client sees: no PUBLISH and no write propagation writes to a
\* connection that has closed, and no PUBLISH counts one as a recipient.
C31_NoWriteAfterClose ==
  [][\A c \in Conns :
       Closed(c)
       => /\ wire'[c] = wire[c]
          /\ \A p \in Conns : PublishStarts(p) => ~InSeq(PublishRecipients(p), c)]_vars

=============================================================================
